---- MODULE Spec2Model ----
(***************************************************************************)
(* A model of the RSP command queue client (src/src/rspq.rs): the command  *)
(* writer (RspQ::write, RspQ::write_begin / Write::arg / Write::end), the  *)
(* block recorder, syncpoints and the high-priority channel, together with *)
(* the queue engine they call into (rspq_next_buffer, rspq_block_begin,    *)
(* ..., reached through crate::sys) and the consumer that executes the     *)
(* command words.                                                          *)
(*                                                                         *)
(* Memory is one flat array of 32-bit words.  The live buffers and the     *)
(* block chunks are regions of it whose order is chosen at start-up, so a  *)
(* store through a pointer that has left its region lands wherever the     *)
(* allocator happened to put the neighbouring region.                      *)
(***************************************************************************)
EXTENDS Integers, Sequences, FiniteSets, TLC

(***************************************************************************)
(* Bounds of the model.                                                    *)
(***************************************************************************)
\* words of the smaller of the two live-buffer sizes the model starts with
BufSize == 18
\* calls the producer makes in one run
MaxOps == 3
\* bits of the syncpoint counters in the model, for the 32 of the program
SyncBits == 4
\* user commands the consumer executes in one run
MaxTrace == 4
\* chunks the allocator can hand out to blocks in one run
NumChunks == 2

(***************************************************************************)
(* Program constants.                                                      *)
(***************************************************************************)
\* rspq.rs:51 "it supports up to 16 argument words"; used at rspq.rs:56
RSPQ_MAX_SHORT_COMMAND_SIZE == 16
\* the limit of the debug_assert of write_begin (rspq.rs:76)
RSPQ_MAX_COMMAND_SIZE == 62
\* rspq.rs:136 "The maximum depth of nested block calls is 8"
RSPQ_MAX_BLOCK_NESTING_LEVEL == 8

\* command ids of the queue engine itself (overlay 0)
RSPQ_CMD_WAIT_NEW_INPUT == 0
RSPQ_CMD_NOOP == 1
RSPQ_CMD_JUMP == 2
RSPQ_CMD_CALL == 3
RSPQ_CMD_RET == 4
RSPQ_CMD_WRITE_STATUS == 6
RSPQ_CMD_SWAP_BUFFERS == 7
RSPQ_CMD_TEST_WRITE_STATUS == 8

\* payload of WRITE_STATUS: which "buffer done" signal the consumer raises
SIG_BUFDONE_LOW == 1
SIG_BUFDONE_HIGH == 2
SIG_HIGHPRI_REQUESTED == 4

W16 == 2 ^ 16
W24 == 2 ^ 24

(***************************************************************************)
(* 32-bit arithmetic.                                                      *)
(***************************************************************************)
\* u32 addition and shift, computed on 16-bit halves (wrapping at 32 bits)
Add32(a, b) ==
    LET lo == (a % W16) + (b % W16)
        hi == (a \div W16) + (b \div W16) + (lo \div W16)
    IN  (hi % W16) * W16 + (lo % W16)
Shl24(a) == (a % 2 ^ 8) * W24

RECURSIVE BitOr(_, _)
BitOr(a, b) ==
    IF a = 0 THEN b
    ELSE IF b = 0 THEN a
    ELSE (IF a % 2 = 1 \/ b % 2 = 1 THEN 1 ELSE 0) + 2 * BitOr(a \div 2, b \div 2)

TopByte(word) == word \div W24
Payload(word) == word % W24

(***************************************************************************)
(* Memory layout.  Regions 1, 2 are the two low-priority buffers, 3, 4 the *)
(* two high-priority buffers, 5.. the chunks blocks are recorded into.     *)
(***************************************************************************)
NumRegions == 4 + NumChunks
SlotSize == BufSize + 1
ChunkSize == BufSize
HeapSlack == SlotSize
MemSize == NumRegions * SlotSize + HeapSlack
Addrs == 0 .. (MemSize - 1)

\* The orders in which the allocator may have laid the regions out (region ->
\* position): in allocation order, or with the high-priority buffers first,
\* then the second low-priority buffer, the chunks from last to first and
\* the first low-priority buffer.
Layouts == { [ r \in 1 .. NumRegions |-> r - 1 ],
             [ r \in 1 .. NumRegions |->
                  IF r = 1 THEN NumRegions - 1
                  ELSE IF r <= 4 THEN 4 - r
                  ELSE 3 + NumChunks - (r - 4) ] }
BufSizes == { BufSize, BufSize + 1 }

VARIABLES
    cfg,                \* [pos, buf_size, budget]: layout, live-buffer size and number of calls, fixed at init
    mem,                \* RDRAM words
    rspq_cur_pointer,   \* write cursor
    rspq_cur_sentinel,  \* end of the current buffer minus the short-command maximum
    rspq_ctx,           \* "lowpri", "highpri", or "none" while a block is recorded
    lowpri,             \* saved context of the normal stream
    highpri,            \* saved context of the high-priority stream
    rspq_block,         \* id of the block being recorded, 0 (null) if none
    blocks,             \* block id -> [state, cmds, nesting_level]
    nchunks,            \* chunks handed out so far
    sp_status,          \* signals shared by producer and consumer
    fatal,              \* an assertion failed: the program has halted
    w,                  \* the live Write cursor of write_begin, if any
    builders,           \* BlockBuilder handles that have not been ended
    rspq_syncpoints_genid,  \* id of the last syncpoint created
    rspq_syncpoints_done,   \* syncpoints the consumer has reached
    tokens,             \* the Syncpoint tokens handed out, with where they were made
    rsp,                \* the consumer: [pc, stack, depth, trace, highpri, lowpri_pc, highpri_pc, crashed, calls]
    hist,               \* history: the last operation and the commands written
    rdp,                \* the render-mode engine: [som, hw, stack, frozen, fatal]
    mh,                 \* history of the render-mode calls
    dev                 \* the display and audio subsystems and their handles

qvars == << cfg, mem, rspq_cur_pointer, rspq_cur_sentinel, rspq_ctx, lowpri, highpri,
            rspq_block, blocks, nchunks, sp_status, fatal, w, builders,
            rspq_syncpoints_genid, rspq_syncpoints_done, tokens, rsp, hist >>

vars == << qvars, rdp, mh, dev >>

Base(c, r) == c.pos[r] * SlotSize
CtxBuffer(c, name, idx) == Base(c, (IF name = "lowpri" THEN 1 ELSE 3) + idx)
CtxBufSize(c, name) == IF name = "lowpri" THEN c.buf_size ELSE BufSize
ChunkBase(c, k) == Base(c, 4 + k)

(***************************************************************************)
(* The producer-side state as one record, so that the operations can be    *)
(* written as functions from state to state.                               *)
(***************************************************************************)
State ==
    [ cfg |-> cfg, mem |-> mem, cur |-> rspq_cur_pointer, sentinel |-> rspq_cur_sentinel,
      ctx |-> rspq_ctx, lowpri |-> lowpri, highpri |-> highpri, block |-> rspq_block,
      blocks |-> blocks, nchunks |-> nchunks, sp |-> sp_status, fatal |-> fatal,
      genid |-> rspq_syncpoints_genid,
      stores |-> << >>, switches |-> 0 ]

Commit(s) ==
    /\ mem' = s.mem
    /\ rspq_cur_pointer' = s.cur
    /\ rspq_cur_sentinel' = s.sentinel
    /\ rspq_ctx' = s.ctx
    /\ lowpri' = s.lowpri
    /\ highpri' = s.highpri
    /\ rspq_block' = s.block
    /\ blocks' = s.blocks
    /\ nchunks' = s.nchunks
    /\ sp_status' = s.sp
    /\ fatal' = s.fatal
    /\ rspq_syncpoints_genid' = s.genid
    /\ cfg' = cfg
    /\ UNCHANGED << rdp, mh, dev >>

\* ptr.write_volatile(value): a store outside the modelled memory is lost
Store(s, addr, value, kind) ==
    [ s EXCEPT !.mem = IF addr \in Addrs THEN [ @ EXCEPT ![addr] = value ] ELSE @,
               !.stores = Append(@, << addr, value, kind >>) ]

RECURSIVE StoreSeq(_, _, _, _)
StoreSeq(s, addr, values, kind) ==
    IF values = << >> THEN s
    ELSE StoreSeq(Store(s, addr, Head(values), kind), addr + 1, Tail(values), kind)

Fatal(s) == [ s EXCEPT !.fatal = TRUE ]

\* *SP_STATUS = SP_WSTATUS_SET_SIG_MORE | SP_WSTATUS_CLEAR_HALT
Kick(s) == [ s EXCEPT !.sp.halted = FALSE ]

(***************************************************************************)
(* The queue engine behind crate::sys::rspq.                               *)
(***************************************************************************)
\* the size of the buffer the cursor is currently meant to be in
CurBufSize(s) == IF s.ctx = "none" THEN ChunkSize ELSE CtxBufSize(s.cfg, s.ctx)
CurBufEnd(s) == s.sentinel + RSPQ_MAX_SHORT_COMMAND_SIZE
CurBufStart(s) == CurBufEnd(s) - CurBufSize(s)

\* clear the new buffer, point the cursor at it and compute its sentinel
rspq_switch_buffer(s, new, size) ==
    [ s EXCEPT !.mem = [ a \in Addrs |-> IF a >= new /\ a < new + size THEN 0 ELSE @[a] ],
               !.cur = new,
               !.sentinel = new + size - RSPQ_MAX_SHORT_COMMAND_SIZE ]

BufDone(s) == IF s.ctx = "lowpri" THEN s.sp.bufdone_low ELSE s.sp.bufdone_high
ClearBufDone(s) ==
    IF s.ctx = "lowpri" THEN [ s EXCEPT !.sp.bufdone_low = FALSE ]
    ELSE [ s EXCEPT !.sp.bufdone_high = FALSE ]
CtxOf(s) == IF s.ctx = "lowpri" THEN s.lowpri ELSE s.highpri
SetCtx(s, c) == IF s.ctx = "lowpri" THEN [ s EXCEPT !.lowpri = c ] ELSE [ s EXCEPT !.highpri = c ]

\* the "switch buffers" operation: while a block is recorded, chain a new
\* chunk to it; on a live stream, flip to the other buffer, which must have
\* been drained by the consumer, and terminate the old one with the
\* commands that make the consumer follow.
rspq_next_buffer(s) ==
    IF s.fatal THEN s
    ELSE IF s.block # 0 THEN
        IF s.nchunks >= NumChunks THEN Fatal(s)
        ELSE
            LET prev == s.cur
                new == ChunkBase(s.cfg, s.nchunks + 1)
                s1 == rspq_switch_buffer([ s EXCEPT !.nchunks = @ + 1 ], new, ChunkSize)
            IN  [ Store(s1, prev, Shl24(RSPQ_CMD_JUMP) + new, "sys")
                    EXCEPT !.switches = @ + 1 ]
    ELSE IF ~BufDone(s) THEN Fatal(s)
    ELSE
        LET prev == s.cur
            idx == 1 - CtxOf(s).buf_idx
            new == CtxBuffer(s.cfg, s.ctx, idx)
            sig == IF s.ctx = "lowpri" THEN SIG_BUFDONE_LOW ELSE SIG_BUFDONE_HIGH
            s1 == SetCtx(ClearBufDone(s), [ CtxOf(s) EXCEPT !.buf_idx = idx ])
            s2 == rspq_switch_buffer(s1, new, CtxBufSize(s.cfg, s.ctx))
            s3 == Store(s2, prev, Shl24(RSPQ_CMD_WRITE_STATUS) + sig, "sys")
            s4 == Store(s3, prev + 1, Shl24(RSPQ_CMD_JUMP) + new, "sys")
        IN  [ Kick(s4) EXCEPT !.switches = @ + 1 ]

\* a command of the queue engine itself, written the way the engine writes
\* its own commands: first argument in the header word, sentinel checked
\* against the advanced cursor
rspq_int_write(s, cmd_id, args) ==
    IF s.fatal THEN s
    ELSE
        LET ptr == s.cur
            first == IF args = << >> THEN 0 ELSE Head(args)
            rest == IF args = << >> THEN << >> ELSE Tail(args)
            s1 == StoreSeq(s, ptr + 1, rest, "sys")
            s2 == Store(s1, ptr, BitOr(Shl24(cmd_id), first), "sys")
            s3 == [ s2 EXCEPT !.cur = ptr + 1 + Len(rest) ]
        IN  IF s3.cur > s3.sentinel THEN rspq_next_buffer(s3) ELSE s3

\* save the cursor into the context that is left, load the one entered
rspq_switch_context(s, new) ==
    LET saved == IF s.ctx = "none" THEN s
                 ELSE SetCtx(s, [ CtxOf(s) EXCEPT !.cur = s.cur, !.sentinel = s.sentinel ])
        entered == [ saved EXCEPT !.ctx = new ]
    IN  IF new = "none" THEN entered
        ELSE [ entered EXCEPT !.cur = CtxOf(entered).cur, !.sentinel = CtxOf(entered).sentinel ]

\* RspQ::write that stores the header word before the argument words
RspQ_write_header_first(s, ovl_id, cmd_id, args) ==
    LET ptr == s.cur
        s1 == Store(s, ptr, Add32(ovl_id, Shl24(cmd_id)), "cmd")
        s2 == StoreSeq(s1, ptr + 1, args, "cmd")
        s3 == [ s2 EXCEPT !.cur = ptr + 1 + Len(args) ]
    IN  IF ptr > s3.sentinel THEN rspq_next_buffer(s3) ELSE s3

\* RspQ::write with the cursor advanced by the argument words only
RspQ_write_short(s, ovl_id, cmd_id, args) ==
    LET ptr == s.cur
        s1 == StoreSeq(s, ptr + 1, args, "cmd")
        s2 == Store(s1, ptr, Add32(ovl_id, Shl24(cmd_id)), "cmd")
        s3 == [ s2 EXCEPT !.cur = ptr + Len(args) ]
    IN  IF ptr > s3.sentinel THEN rspq_next_buffer(s3) ELSE s3

(***************************************************************************)
(* RspQ::write (rspq.rs:53-71).                                            *)
(***************************************************************************)
RspQ_write(s, ovl_id, cmd_id, args) ==
    LET ptr == s.cur
        s1 == StoreSeq(s, ptr + 1, args, "cmd")
        s2 == Store(s1, ptr, Add32(ovl_id, Shl24(cmd_id)), "cmd")
        s3 == [ s2 EXCEPT !.cur = ptr + 1 + Len(args) ]
    IN  IF ptr > s3.sentinel THEN rspq_next_buffer(s3) ELSE s3

(***************************************************************************)
(* RspQ::write_begin (rspq.rs:74-98), Write::arg (rspq.rs:219-229) and     *)
(* Write::end (rspq.rs:232-237).  write_begin returns the state and the    *)
(* Write cursor.                                                           *)
(***************************************************************************)
NoWrite == [ active |-> FALSE, first_word |-> 0, pointer |-> 0, first |-> 0, is_first |-> FALSE ]

RspQ_write_begin(s, ovl_id, cmd_id, size) ==
    IF size > RSPQ_MAX_COMMAND_SIZE THEN [ s |-> Fatal(s), w |-> NoWrite ]
    ELSE
        LET cur == s.cur
            s1 == IF s.cur > s.sentinel - size THEN rspq_next_buffer(s) ELSE s
            s2 == [ s1 EXCEPT !.cur = cur + size ]
        IN  [ s |-> s2,
              w |-> [ active |-> TRUE,
                      first_word |-> Add32(ovl_id, Shl24(cmd_id)),
                      pointer |-> cur + 1,
                      first |-> cur,
                      is_first |-> TRUE ] ]

\* returns the state and the cursor after one arg(value)
Write_arg(s, wr, value) ==
    IF wr.is_first
    THEN [ s |-> s, w |-> [ wr EXCEPT !.first_word = BitOr(@, value), !.is_first = FALSE ] ]
    ELSE [ s |-> Store(s, wr.pointer, value, "cmd"),
           w |-> [ wr EXCEPT !.pointer = @ + 1 ] ]

Write_end(s, wr) == Store(s, wr.first, wr.first_word, "cmd")

(***************************************************************************)
(* Blocks: RspQ::block_begin (rspq.rs:129-135), BlockBuilder::end          *)
(* (rspq.rs:319-322), RspQ::block_run (rspq.rs:138-140), over the engine's *)
(* rspq_block_begin, rspq_block_end and rspq_block_run.                    *)
(***************************************************************************)
\* redirect the writer from the live ring to a fresh chunk
\* rspq_block_begin that does not look at the context it is called in
rspq_block_begin_anywhere(s) ==
    IF s.nchunks >= NumChunks THEN Fatal(s)
    ELSE
        LET id == s.nchunks + 1
            cmds == ChunkBase(s.cfg, id)
            s1 == [ s EXCEPT !.nchunks = id, !.block = id,
                             !.blocks[id] = [ state |-> "recording", cmds |-> cmds,
                                              nesting_level |-> 0 ] ]
        IN  rspq_switch_buffer(rspq_switch_context(s1, "none"), cmds, ChunkSize)

rspq_block_begin(s) ==
    IF s.ctx = "highpri" \/ s.nchunks >= NumChunks THEN Fatal(s)
    ELSE
        LET id == s.nchunks + 1
            cmds == ChunkBase(s.cfg, id)
            s1 == [ s EXCEPT !.nchunks = id, !.block = id,
                             !.blocks[id] = [ state |-> "recording", cmds |-> cmds,
                                              nesting_level |-> 0 ] ]
        IN  rspq_switch_buffer(rspq_switch_context(s1, "none"), cmds, ChunkSize)

\* terminate the block with RET, go back to the normal stream, clear the flag
rspq_block_end(s) ==
    IF s.block = 0 THEN Fatal(s)
    ELSE
        LET s1 == rspq_int_write(s, RSPQ_CMD_RET, << 4 * s.blocks[s.block].nesting_level >>)
            s2 == rspq_switch_context(s1, "lowpri")
        IN  [ s2 EXCEPT !.blocks[s.block].state = "sealed", !.block = 0 ]

\* one CALL command into the block, on whatever stream is current
rspq_block_run(s, b) ==
    IF s.ctx = "highpri" THEN Fatal(s)
    ELSE
        LET lvl == s.blocks[b].nesting_level
            s1 == rspq_int_write(s, RSPQ_CMD_CALL, << s.blocks[b].cmds, 4 * lvl >>)
        IN  IF s1.block # 0 /\ s1.blocks[s1.block].nesting_level <= lvl
            THEN [ s1 EXCEPT !.blocks[s1.block].nesting_level = lvl + 1 ]
            ELSE s1

\* RspQ::block_begin without its assertion
RspQ_block_begin_unchecked(s) == rspq_block_begin(s)

\* assert!(rspq_block.is_null()), then rspq_block_begin()
RspQ_block_begin(s) ==
    IF s.block # 0 THEN Fatal(s) ELSE rspq_block_begin(s)

BlockBuilder_end(s) == rspq_block_end(s)

RspQ_block_run(s, b) == rspq_block_run(s, b)

\* the block's memory is released at once; what its words hold afterwards
\* is up to the allocator
rspq_block_free(s, b, reused) ==
    [ s EXCEPT !.blocks[b].state = "freed",
               !.mem = IF reused
                       THEN [ a \in Addrs |->
                                IF a >= s.blocks[b].cmds /\ a < s.blocks[b].cmds + ChunkSize
                                THEN 0 ELSE @[a] ]
                       ELSE @ ]

\* Drop for Block (rspq.rs:277-283): rspq_block_free(self.as_raw())
Block_drop(s, b, reused) == rspq_block_free(s, b, reused)

(***************************************************************************)
(* Syncpoints: RspQ::syncpoint (rspq.rs:112-114) over rspq_syncpoint_new.  *)
(* The id counter and the completion counter are integers of SyncBits      *)
(* bits that wrap around.                                                  *)
(***************************************************************************)
SyncRange == 2 ^ SyncBits
SyncWrap(x) == x % SyncRange
\* (a - b) in SyncBits bits, as a signed integer
SignedDiff(a, b) ==
    LET d == SyncWrap(a - b)
    IN  IF d >= SyncRange \div 2 THEN d - SyncRange ELSE d

\* rspq_syncpoint_new without its assertions
rspq_syncpoint_new_unchecked(s) ==
    [ rspq_int_write(s, RSPQ_CMD_TEST_WRITE_STATUS, << 0, 0 >>) EXCEPT !.genid = SyncWrap(@ + 1) ]

\* fatal in the high-priority channel and while a block is recorded
rspq_syncpoint_new(s) ==
    IF s.ctx = "highpri" \/ s.block # 0 THEN Fatal(s)
    ELSE [ rspq_int_write(s, RSPQ_CMD_TEST_WRITE_STATUS, << 0, 0 >>)
             EXCEPT !.genid = SyncWrap(@ + 1) ]

RspQ_syncpoint(s) == rspq_syncpoint_new(s)

\* rspq_syncpoint_check that reports a syncpoint only while it is the last one reached
rspq_syncpoint_check_exact(sync_id, done) == sync_id = done

\* rspq_syncpoint_check that compares the id and the counter as they stand
rspq_syncpoint_check_plain(sync_id, done) == sync_id <= done

\* the difference between the id and the completion counter, taken in the
\* width of the counters and read as signed, is not positive
rspq_syncpoint_check(sync_id, done) == SignedDiff(sync_id, done) <= 0

\* Syncpoint::check (rspq.rs:186-188)
Syncpoint_check(token) == rspq_syncpoint_check(token.id, rspq_syncpoints_done)

\* RspQ::syncpoint_cb (rspq.rs:117-119) over rspq_syncpoint_new_cb: the same
\* syncpoint; the callback is kept in `tokens` by the action
rspq_syncpoint_new_cb(s) == rspq_syncpoint_new(s)
RspQ_syncpoint_cb(s) == rspq_syncpoint_new_cb(s)

\* Syncpoint::wait (rspq.rs:191-193) over rspq_syncpoint_wait and RspQ::wait
\* (rspq.rs:106-108) over rspq_wait: what the call does before it blocks.
\* The consumer is woken; rspq_wait waits on a syncpoint of its own, put at
\* the end of what was written.  The caller is released by WaitReturn.
rspq_syncpoint_wait(s) == IF s.fatal THEN s ELSE Kick(s)
rspq_wait(s) == rspq_syncpoint_wait(rspq_syncpoint_new(s))
Syncpoint_wait(s) == rspq_syncpoint_wait(s)
RspQ_wait(s) == rspq_wait(s)

(***************************************************************************)
(* The high-priority channel: RspQ::highpri_begin (rspq.rs:143-146) and    *)
(* Highpri::end (rspq.rs:260-263) over rspq_highpri_begin / _end; and      *)
(* RspQ::flush (rspq.rs:101-103) over rspq_flush.                          *)
(***************************************************************************)
\* Segments opened one after another are consumed in order (rspq.rs:141):
\* the epilog of the segment closed just before is turned into a no-op so
\* that the consumer runs on into the new segment, whose prolog takes the
\* request back; then the request is raised
rspq_highpri_begin(s) ==
    IF s.ctx = "highpri" \/ s.block # 0 THEN Fatal(s)
    ELSE
        LET s1 == rspq_switch_context(s, "highpri")
            epilog == s1.cur - 1
            s2 == IF s1.cur > CurBufStart(s1) /\ epilog \in Addrs
                     /\ TopByte(s1.mem[epilog]) = RSPQ_CMD_SWAP_BUFFERS
                  THEN Store(s1, epilog, Shl24(RSPQ_CMD_NOOP), "sys")
                  ELSE s1
            s3 == rspq_int_write(s2, RSPQ_CMD_WRITE_STATUS, << SIG_HIGHPRI_REQUESTED >>)
        IN  Kick([ s3 EXCEPT !.sp.highpri_requested = TRUE ])

rspq_highpri_end(s) ==
    IF s.ctx # "highpri" THEN Fatal(s)
    ELSE rspq_switch_context(Kick(rspq_int_write(s, RSPQ_CMD_SWAP_BUFFERS, << >>)), "lowpri")

\* a no-op while a block is being recorded
rspq_flush_always(s) == Kick(s)

rspq_flush(s) == IF s.block # 0 THEN s ELSE Kick(s)

RspQ_highpri_begin(s) == rspq_highpri_begin(s)
\* Highpri::end that lets go of the handle without closing the segment
Highpri_end_forgotten(s) == s

\* Highpri::end (rspq.rs:260-263)
Highpri_end(s) == rspq_highpri_end(s)
RspQ_flush(s) == rspq_flush(s)

\* RspQ::call_deferred (rspq.rs:122-125): self.syncpoint_cb(func, data); self.flush()
RspQ_call_deferred(s) == RspQ_flush(RspQ_syncpoint_cb(s))

(***************************************************************************)
(* The inputs of the model: one overlay, and four of its commands with the *)
(* argument words the producer passes for each.  The overlay declares each *)
(* command's length in words in the format of the command-word ABI (first  *)
(* argument in the low 24 bits of the header word).                        *)
(***************************************************************************)
Overlays == { 1 * 2 ^ 28 }
UserCmds == 1 .. 4
CmdArgs ==
    << << >>,
       << 16720435 >>,                  \* 0x00FF2233
       << 5, 3 * 2 ^ 28 + 7 >>,         \* 0x00000005, 0x30000007
       [ i \in 1 .. RSPQ_MAX_SHORT_COMMAND_SIZE |->
            IF i = 1 THEN 1 ELSE 2 ^ 28 + 2 ^ 24 + i ] >>  \* 0x000001, 0x11000002, ...

\* the words of a command in the format of the ABI
Logical(ovl_id, cmd_id, args) ==
    IF args = << >> THEN << BitOr(ovl_id, Shl24(cmd_id)) >>
    ELSE << BitOr(BitOr(ovl_id, Shl24(cmd_id)), Head(args)) >> \o Tail(args)

\* words of a user command as the overlay declares them to the consumer
CmdWords(cmd_id) ==
    IF cmd_id \in UserCmds /\ Len(CmdArgs[cmd_id]) > 1 THEN Len(CmdArgs[cmd_id]) ELSE 1

(***************************************************************************)
(* History kept for the properties: the last producer call with the stores *)
(* it issued, and the commands written to each stream.                     *)
(***************************************************************************)
Last(op, ovl_id, cmd_id, args, s, token) ==
    [ op |-> op, ovl |-> ovl_id, cmd |-> cmd_id, args |-> args,
      first |-> rspq_cur_pointer, sentinel |-> rspq_cur_sentinel,
      ctx |-> rspq_ctx, block |-> rspq_block,
      buf |-> << CurBufStart(State), CurBufEnd(State) >>,
      stores |-> s.stores, switches |-> s.switches, token |-> token,
      failed |-> s.fatal, free |-> BufDone(State) ]

Logged(h, cmd) ==
    IF rspq_block # 0 THEN [ h EXCEPT !.recorded = Append(@, cmd) ]
    ELSE IF rspq_ctx = "lowpri" THEN [ h EXCEPT !.written = Append(@, cmd) ]
    ELSE [ h EXCEPT !.hp_written = Append(@, cmd) ]

\* a caller blocked in a wait makes no other call
Ready == ~fatal /\ hist.ops < cfg.budget /\ ~w.active /\ hist.waiting = 0

(***************************************************************************)
(* The producer's calls.                                                   *)
(***************************************************************************)
Write(ovl_id, cmd_id, args) ==
    /\ Ready
    /\ LET s == RspQ_write(State, ovl_id, cmd_id, args)
       IN  /\ Commit(s)
           /\ hist' = [ Logged(hist, Logical(ovl_id, cmd_id, args))
                          EXCEPT !.ops = @ + 1,
                                 !.last = Last("write", ovl_id, cmd_id, args, s, 0) ]
    /\ UNCHANGED << w, builders, rspq_syncpoints_done, tokens, rsp >>

WriteBegin(ovl_id, cmd_id, size) ==
    /\ Ready
    /\ LET r == RspQ_write_begin(State, ovl_id, cmd_id, size)
       IN  /\ Commit(r.s)
           /\ w' = IF r.s.fatal THEN NoWrite ELSE r.w
           /\ hist' = [ hist EXCEPT !.ops = @ + 1,
                                    !.wb = [ ovl |-> ovl_id, cmd |-> cmd_id, size |-> size,
                                             args |-> << >>, block |-> rspq_block,
                                             ctx |-> rspq_ctx ],
                                    !.last = Last("write_begin", ovl_id, cmd_id, << >>, r.s, 0) ]
    /\ UNCHANGED << builders, rspq_syncpoints_done, tokens, rsp >>

WriteArg(value) ==
    /\ ~fatal /\ w.active
    /\ LET r == Write_arg(State, w, value)
       IN  /\ Commit(r.s)
           /\ w' = r.w
           /\ hist' = [ hist EXCEPT !.wb.args = Append(@, value),
                                    !.last = Last("arg", hist.wb.ovl, hist.wb.cmd,
                                                  Append(hist.wb.args, value), r.s, 0) ]
    /\ UNCHANGED << builders, rspq_syncpoints_done, tokens, rsp >>

\* the caller ends the command once it has passed all of its arguments
WriteEnd ==
    /\ ~fatal /\ w.active
    /\ Len(hist.wb.args) = Len(CmdArgs[hist.wb.cmd])
    /\ LET s == Write_end(State, w)
           cmd == Logical(hist.wb.ovl, hist.wb.cmd, hist.wb.args)
           h == IF hist.wb.block # 0 THEN [ hist EXCEPT !.recorded = Append(@, cmd) ]
                ELSE IF hist.wb.ctx = "lowpri" THEN [ hist EXCEPT !.written = Append(@, cmd) ]
                ELSE [ hist EXCEPT !.hp_written = Append(@, cmd) ]
       IN  /\ Commit(s)
           /\ w' = NoWrite
           /\ hist' = [ h EXCEPT !.last = Last("end", hist.wb.ovl, hist.wb.cmd,
                                              hist.wb.args, s, 0) ]
    /\ UNCHANGED << builders, rspq_syncpoints_done, tokens, rsp >>

Flush ==
    /\ Ready
    /\ sp_status.halted
    /\ LET s == RspQ_flush(State)
       IN  /\ Commit(s)
           /\ hist' = [ hist EXCEPT !.ops = @ + 1,
                                    !.last = Last("flush", 0, 0, << >>, s, 0) ]
    /\ UNCHANGED << w, builders, rspq_syncpoints_done, tokens, rsp >>

BlockBegin ==
    /\ Ready
    /\ LET s == RspQ_block_begin(State)
       IN  /\ Commit(s)
           /\ builders' = IF s.fatal THEN builders ELSE builders + 1
           /\ hist' = [ hist EXCEPT !.ops = @ + 1, !.recorded = IF s.fatal THEN @ ELSE << >>,
                                    !.last = Last("block_begin", 0, 0, << >>, s, 0) ]
    /\ UNCHANGED << w, rspq_syncpoints_done, tokens, rsp >>

BlockEnd ==
    /\ Ready
    /\ builders > 0
    /\ LET s == BlockBuilder_end(State)
       IN  /\ Commit(s)
           /\ builders' = builders - 1
           /\ hist' = [ hist EXCEPT !.ops = @ + 1,
                                    !.last = Last("block_end", 0, 0, << >>, s, 0) ]
    /\ UNCHANGED << w, rspq_syncpoints_done, tokens, rsp >>

BlockRun(b) ==
    /\ Ready
    /\ blocks[b].state = "sealed"
    /\ LET s == RspQ_block_run(State, b)
       IN  /\ Commit(s)
           /\ hist' = [ hist EXCEPT !.ops = @ + 1,
                                    !.runs = IF s.fatal THEN @ ELSE @ + 1,
                                    !.called = IF s.fatal \/ rspq_block # 0 THEN @
                                               ELSE Append(@, b),
                                    !.last = Last("block_run", 0, 0, << >>, s, 0) ]
    /\ UNCHANGED << w, builders, rspq_syncpoints_done, tokens, rsp >>

\* Drop for Block: the owner lets go of a sealed block.  The freed chunk
\* keeps its words or is given to another allocation that clears them.
BlockDrop(b) ==
    /\ Ready
    /\ blocks[b].state = "sealed"
    /\ \E reused \in BOOLEAN :
        LET s == Block_drop(State, b, reused)
        IN  /\ Commit(s)
            /\ hist' = [ hist EXCEPT !.ops = @ + 1,
                                     !.last = Last("block_drop", 0, 0, << >>, s, 0) ]
    /\ UNCHANGED << w, builders, rspq_syncpoints_done, tokens, rsp >>

Syncpoint ==
    /\ Ready
    /\ LET s == RspQ_syncpoint(State)
           token == IF s.fatal THEN 0 ELSE s.genid
       IN  /\ Commit(s)
           /\ tokens' = IF s.fatal THEN tokens
                        ELSE Append(tokens, [ id |-> token, ctx |-> rspq_ctx,
                                              block |-> rspq_block, cb |-> FALSE,
                                              deferred |-> FALSE, called |-> FALSE,
                                              pos |-> Len(hist.written) ])
           /\ hist' = [ hist EXCEPT !.ops = @ + 1,
                                    !.last = Last("syncpoint", 0, 0, << >>, s, token) ]
    /\ UNCHANGED << w, builders, rspq_syncpoints_done, rsp >>

SyncpointCb ==
    /\ Ready
    /\ LET s == RspQ_syncpoint_cb(State)
           token == IF s.fatal THEN 0 ELSE s.genid
       IN  /\ Commit(s)
           /\ tokens' = IF s.fatal THEN tokens
                        ELSE Append(tokens, [ id |-> token, ctx |-> rspq_ctx,
                                              block |-> rspq_block, cb |-> TRUE,
                                              deferred |-> FALSE, called |-> FALSE,
                                              pos |-> Len(hist.written) ])
           /\ hist' = [ hist EXCEPT !.ops = @ + 1,
                                    !.last = Last("syncpoint_cb", 0, 0, << >>, s, token) ]
    /\ UNCHANGED << w, builders, rspq_syncpoints_done, rsp >>

CallDeferred ==
    /\ Ready
    /\ LET s == RspQ_call_deferred(State)
           token == IF s.fatal THEN 0 ELSE s.genid
       IN  /\ Commit(s)
           /\ tokens' = IF s.fatal THEN tokens
                        ELSE Append(tokens, [ id |-> token, ctx |-> rspq_ctx,
                                              block |-> rspq_block, cb |-> TRUE,
                                              deferred |-> TRUE, called |-> FALSE,
                                              pos |-> Len(hist.written) ])
           /\ hist' = [ hist EXCEPT !.ops = @ + 1,
                                    !.last = Last("call_deferred", 0, 0, << >>, s, token) ]
    /\ UNCHANGED << w, builders, rspq_syncpoints_done, rsp >>

\* the callback of a syncpoint is invoked, once, after the syncpoint was reached
RunCallback(i) ==
    /\ ~fatal
    /\ tokens[i].cb /\ ~tokens[i].called
    /\ Syncpoint_check(tokens[i])
    /\ tokens' = [ tokens EXCEPT ![i].called = TRUE ]
    /\ UNCHANGED << cfg, mem, rspq_cur_pointer, rspq_cur_sentinel, rspq_ctx, lowpri, highpri,
                    rspq_block, blocks, nchunks, sp_status, fatal, w, builders,
                    rspq_syncpoints_genid, rspq_syncpoints_done, rsp, hist, rdp, mh, dev >>

HighpriBegin ==
    /\ Ready
    /\ LET s == RspQ_highpri_begin(State)
       IN  /\ Commit(s)
           /\ hist' = [ hist EXCEPT !.ops = @ + 1,
                                    !.last = Last("highpri_begin", 0, 0, << >>, s, 0) ]
    /\ UNCHANGED << w, builders, rspq_syncpoints_done, tokens, rsp >>

HighpriEnd ==
    /\ Ready
    /\ rspq_ctx = "highpri"
    /\ LET s == Highpri_end(State)
       IN  /\ Commit(s)
           /\ hist' = [ hist EXCEPT !.ops = @ + 1,
                                    !.last = Last("highpri_end", 0, 0, << >>, s, 0) ]
    /\ UNCHANGED << w, builders, rspq_syncpoints_done, tokens, rsp >>

\* RspQ::wait: the call up to the point where it blocks
Wait ==
    /\ Ready
    /\ LET s == RspQ_wait(State)
       IN  /\ Commit(s)
           /\ hist' = [ hist EXCEPT !.ops = @ + 1,
                                    !.waiting = IF s.fatal THEN 0 ELSE s.genid,
                                    !.last = Last("wait", 0, 0, << >>, s, s.genid) ]
    /\ UNCHANGED << w, builders, rspq_syncpoints_done, tokens, rsp >>

\* Syncpoint::wait on a token made earlier: the call up to the point where it blocks
SyncpointWait(i) ==
    /\ Ready
    /\ ~tokens[i].cb
    /\ LET s == Syncpoint_wait(State)
       IN  /\ Commit(s)
           /\ hist' = [ hist EXCEPT !.ops = @ + 1,
                                    !.waiting = tokens[i].id,
                                    !.last = Last("syncpoint_wait", 0, 0, << >>, s,
                                                  tokens[i].id) ]
    /\ UNCHANGED << w, builders, rspq_syncpoints_done, tokens, rsp >>

\* the blocked call finds the syncpoint reached and returns
WaitReturn ==
    /\ ~fatal
    /\ hist.waiting # 0
    /\ rspq_syncpoint_check(hist.waiting, rspq_syncpoints_done)
    /\ hist' = [ hist EXCEPT !.waiting = 0,
                             !.last.op = IF @ = "wait" THEN "wait_returned"
                                         ELSE "syncpoint_wait_returned" ]
    /\ UNCHANGED << cfg, mem, rspq_cur_pointer, rspq_cur_sentinel, rspq_ctx, lowpri, highpri,
                    rspq_block, blocks, nchunks, sp_status, fatal, w, builders,
                    rspq_syncpoints_genid, rspq_syncpoints_done, tokens, rsp, rdp, mh, dev >>

(***************************************************************************)
(* The consumer.  One step is one dispatch: it enters the high-priority    *)
(* stream if that was requested, otherwise it decodes the command at pc.   *)
(* Commands of overlay 0 are the engine's own; any other command is a user *)
(* command, whose words are appended to the trace.                         *)
(***************************************************************************)
RspSource == IF rsp.highpri THEN "highpri" ELSE IF rsp.depth > 0 THEN "block" ELSE "live"

RspCrash == [ rsp EXCEPT !.crashed = TRUE ]

RspExec(word) ==
    LET id == TopByte(word)
        pc == rsp.pc
    IN  IF id = RSPQ_CMD_WAIT_NEW_INPUT THEN
            /\ sp_status' = [ sp_status EXCEPT !.halted = TRUE ]
            /\ UNCHANGED << rsp, rspq_syncpoints_done >>
        ELSE IF id = RSPQ_CMD_NOOP THEN
            /\ rsp' = [ rsp EXCEPT !.pc = pc + 1 ]
            /\ UNCHANGED << sp_status, rspq_syncpoints_done >>
        ELSE IF id = RSPQ_CMD_JUMP THEN
            /\ rsp' = [ rsp EXCEPT !.pc = Payload(word) ]
            /\ UNCHANGED << sp_status, rspq_syncpoints_done >>
        ELSE IF id = RSPQ_CMD_CALL THEN
            /\ rsp' = IF pc + 1 \in Addrs
                         /\ mem[pc + 1] \div 4 < RSPQ_MAX_BLOCK_NESTING_LEVEL
                         /\ rsp.depth < RSPQ_MAX_BLOCK_NESTING_LEVEL
                      THEN [ rsp EXCEPT !.stack[mem[pc + 1] \div 4] = pc + 2,
                                        !.depth = @ + 1,
                                        !.calls = Append(@, Payload(word)),
                                        !.pc = Payload(word) ]
                      ELSE RspCrash
            /\ UNCHANGED << sp_status, rspq_syncpoints_done >>
        ELSE IF id = RSPQ_CMD_RET THEN
            /\ rsp' = IF Payload(word) \div 4 < RSPQ_MAX_BLOCK_NESTING_LEVEL
                      THEN [ rsp EXCEPT !.pc = rsp.stack[Payload(word) \div 4],
                                        !.depth = IF @ > 0 THEN @ - 1 ELSE 0 ]
                      ELSE RspCrash
            /\ UNCHANGED << sp_status, rspq_syncpoints_done >>
        ELSE IF id = RSPQ_CMD_WRITE_STATUS THEN
            /\ sp_status' = [ sp_status EXCEPT
                                !.bufdone_low = @ \/ Payload(word) = SIG_BUFDONE_LOW,
                                !.bufdone_high = @ \/ Payload(word) = SIG_BUFDONE_HIGH,
                                !.highpri_requested =
                                    @ /\ Payload(word) # SIG_HIGHPRI_REQUESTED ]
            /\ rsp' = [ rsp EXCEPT !.pc = pc + 1 ]
            /\ UNCHANGED rspq_syncpoints_done
        ELSE IF id = RSPQ_CMD_SWAP_BUFFERS THEN
            /\ rsp' = IF rsp.highpri
                      THEN [ rsp EXCEPT !.highpri = FALSE, !.highpri_pc = pc + 1,
                                        !.pc = rsp.lowpri_pc ]
                      ELSE RspCrash
            /\ UNCHANGED << sp_status, rspq_syncpoints_done >>
        ELSE IF id = RSPQ_CMD_TEST_WRITE_STATUS THEN
            /\ rsp.syncs < MaxOps
            /\ rspq_syncpoints_done' = SyncWrap(rspq_syncpoints_done + 1)
            /\ rsp' = [ rsp EXCEPT !.pc = pc + 2, !.syncs = @ + 1 ]
            /\ UNCHANGED sp_status
        ELSE IF id >= 16 THEN
            LET n == CmdWords(id % 16)
            IN  /\ Len(rsp.trace) < MaxTrace
                /\ rsp' = IF pc + n - 1 \in Addrs
                          THEN [ rsp EXCEPT
                                   !.trace = Append(@, [ words |-> [ i \in 1 .. n |-> mem[pc + i - 1] ],
                                                         src |-> RspSource ]),
                                   !.pc = pc + n ]
                          ELSE RspCrash
                /\ UNCHANGED << sp_status, rspq_syncpoints_done >>
        ELSE
            /\ rsp' = RspCrash
            /\ UNCHANGED << sp_status, rspq_syncpoints_done >>

\* a consumer that turns to the high-priority stream only when the normal
\* stream has run dry
RspStepWhenIdle ==
    /\ ~sp_status.halted
    /\ ~rsp.crashed
    /\ IF sp_status.highpri_requested /\ ~rsp.highpri /\ rsp.pc \in Addrs
          /\ TopByte(mem[rsp.pc]) = RSPQ_CMD_WAIT_NEW_INPUT THEN
           /\ rsp' = [ rsp EXCEPT !.highpri = TRUE, !.lowpri_pc = rsp.pc,
                                  !.pc = rsp.highpri_pc ]
           /\ UNCHANGED << sp_status, rspq_syncpoints_done >>
       ELSE IF rsp.pc \notin Addrs THEN
           /\ rsp' = RspCrash
           /\ UNCHANGED << sp_status, rspq_syncpoints_done >>
       ELSE RspExec(mem[rsp.pc])
    /\ UNCHANGED << cfg, mem, rspq_cur_pointer, rspq_cur_sentinel, rspq_ctx, lowpri, highpri,
                    rspq_block, blocks, nchunks, fatal, w, builders,
                    rspq_syncpoints_genid, tokens, hist, rdp, mh, dev >>

RspStep ==
    /\ ~sp_status.halted
    /\ ~rsp.crashed
    /\ IF sp_status.highpri_requested /\ ~rsp.highpri THEN
           /\ rsp' = [ rsp EXCEPT !.highpri = TRUE, !.lowpri_pc = rsp.pc,
                                  !.pc = rsp.highpri_pc ]
           /\ UNCHANGED << sp_status, rspq_syncpoints_done >>
       ELSE IF rsp.pc \notin Addrs THEN
           /\ rsp' = RspCrash
           /\ UNCHANGED << sp_status, rspq_syncpoints_done >>
       ELSE RspExec(mem[rsp.pc])
    /\ UNCHANGED << cfg, mem, rspq_cur_pointer, rspq_cur_sentinel, rspq_ctx, lowpri, highpri,
                    rspq_block, blocks, nchunks, fatal, w, builders,
                    rspq_syncpoints_genid, tokens, hist, rdp, mh, dev >>

(***************************************************************************)
(* The render-mode register of crate::rdpq.  The 64-bit register is the    *)
(* set of the numbers of its one bits, bit 0 the least significant; a      *)
(* 32-bit word is a set of bit numbers 0 .. 31.  Only the bits of the      *)
(* fields named here are modelled.                                         *)
(***************************************************************************)
SOM_TEXTURE_PERSP == { 51 }
SOM_ZMODE_SHIFT == 10
SOM_ZMODE_MASK == { SOM_ZMODE_SHIFT, SOM_ZMODE_SHIFT + 1 }
SOM_AA_ENABLE == { 3 }
RDPQ_CMD_MODIFY_OTHER_MODES == 20
RDPQ_MODE_STACK_SLOTS == 4

SomBits == SOM_TEXTURE_PERSP \cup SOM_ZMODE_MASK \cup SOM_AA_ENABLE
Regs == SUBSET SomBits

\* (x >> 32) as u32, x as u32, !w, and the two halves put together again
HiWord(x) == { b - 32 : b \in { c \in x : c >= 32 } }
LoWord(x) == { b \in x : b < 32 }
Not32(word) == (0 .. 31) \ word
Join(hi, lo) == { b + 32 : b \in hi } \cup lo

\* MODIFY_OTHER_MODES: the half of the register at byte offset 0 (high) or
\* 4 (low) becomes (half & w1) | w2
ModifyOtherModes(som, offset, w1, w2) ==
    IF offset = 0 THEN Join((HiWord(som) \cap w1) \cup w2, LoWord(som))
    ELSE Join(HiWord(som), (LoWord(som) \cap w1) \cup w2)

\* the raw partial update: applied and sent to the hardware at once
rdpq_change_other_modes(r, offset, w1, w2) ==
    LET som == ModifyOtherModes(r.som, offset, w1, w2)
    IN  [ r EXCEPT !.som = som, !.hw = som, !.updates = Append(@, offset) ]

\* the words of the register, by their offset, in which the hardware is
\* behind the tracked mode: high word first
WordsBehind(r) ==
    (IF HiWord(r.hw) # HiWord(r.som) THEN << 0 >> ELSE << >>)
        \o (IF LoWord(r.hw) # LoWord(r.som) THEN << 4 >> ELSE << >>)

\* the update of the mode API that sends its word to the hardware even
\* while a freeze bracket is open
rdpq_fixup_mode3_unfrozen(r, cmd_id, w0, w1, w2) ==
    LET som == ModifyOtherModes(r.som, w0 % 2 ^ 15, w1, w2)
        put_off == (w0 \div 2 ^ 15) % 2 = 0
    IN  [ r EXCEPT !.som = som,
                   !.hw = IF put_off THEN @ ELSE som,
                   !.cmds = Append(@, << cmd_id, w0, w1, w2 >>),
                   !.updates = IF put_off THEN @ ELSE Append(@, w0 % 2 ^ 15) ]

\* the update of the mode API: bit 15 of w0 asks for the hardware register
\* to be updated, which is put off while a freeze bracket is open.  r.cmds
\* are the commands the caller handed over, r.updates the words of the
\* register sent to the hardware.
rdpq_fixup_mode3(r, cmd_id, w0, w1, w2) ==
    LET som == ModifyOtherModes(r.som, w0 % 2 ^ 15, w1, w2)
        put_off == r.frozen \/ (w0 \div 2 ^ 15) % 2 = 0
    IN  [ r EXCEPT !.som = som,
                   !.hw = IF put_off THEN @ ELSE som,
                   !.cmds = Append(@, << cmd_id, w0, w1, w2 >>),
                   !.updates = IF put_off THEN @ ELSE Append(@, w0 % 2 ^ 15) ]

\* rdpq_mode_push that makes room by letting go of the oldest saved mode
rdpq_mode_push_overwriting(r) ==
    IF Len(r.stack) + 1 >= RDPQ_MODE_STACK_SLOTS
    THEN [ r EXCEPT !.stack = Append(Tail(@), r.som) ]
    ELSE [ r EXCEPT !.stack = Append(@, r.som) ]

\* the stack has RDPQ_MODE_STACK_SLOTS slots, the current mode being one
rdpq_mode_push(r) ==
    IF Len(r.stack) + 1 >= RDPQ_MODE_STACK_SLOTS THEN [ r EXCEPT !.fatal = TRUE ]
    ELSE [ r EXCEPT !.stack = Append(@, r.som) ]

rdpq_mode_pop(r) ==
    IF r.stack = << >> THEN [ r EXCEPT !.fatal = TRUE ]
    ELSE LET top == r.stack[Len(r.stack)]
             popped == [ r EXCEPT !.som = top, !.stack = SubSeq(@, 1, Len(@) - 1) ]
         IN  IF r.frozen THEN popped
             ELSE [ popped EXCEPT !.hw = top, !.updates = @ \o WordsBehind(popped) ]

rdpq_mode_begin(r) == [ r EXCEPT !.frozen = TRUE ]
rdpq_mode_end(r) ==
    [ r EXCEPT !.frozen = FALSE, !.hw = r.som, !.updates = @ \o WordsBehind(r) ]

\* RdpQ::change_other_modes_raw (rdpq.rs:916-931)
RdpQ_change_other_modes_raw_hi_only(r, mask, val) ==
    LET hi == HiWord(mask)
    IN  IF hi # { } THEN rdpq_change_other_modes(r, 0, Not32(hi), HiWord(val)) ELSE r

RdpQ_change_other_modes_raw(r, mask, val) ==
    LET hi == HiWord(mask)
        lo == LoWord(mask)
        r1 == IF hi # { } THEN rdpq_change_other_modes(r, 0, Not32(hi), HiWord(val)) ELSE r
    IN  IF lo # { } THEN rdpq_change_other_modes(r1, 4, Not32(lo), LoWord(val)) ELSE r1

\* mode_change_som (rdpq.rs:1226-1245)
mode_change_som(r, mask, val) ==
    LET r1 == IF HiWord(mask) # { }
              THEN rdpq_fixup_mode3(r, RDPQ_CMD_MODIFY_OTHER_MODES, 0 + 2 ^ 15,
                                    Not32(HiWord(mask)), HiWord(val))
              ELSE r
    IN  IF LoWord(mask) # { }
        THEN rdpq_fixup_mode3(r1, RDPQ_CMD_MODIFY_OTHER_MODES, 4 + 2 ^ 15,
                              Not32(LoWord(mask)), LoWord(val))
        ELSE r1

\* the setters of RdpQModes: their mask and value (rdpq.rs:1409-1411,
\* 1442-1444)
zmode_val(mode) == { SOM_ZMODE_SHIFT + i : i \in { j \in 0 .. 1 : (mode \div 2 ^ j) % 2 = 1 } }
persp_val(perspective) == IF perspective THEN SOM_TEXTURE_PERSP ELSE { }

mode_zmode(r, mode) == mode_change_som(r, SOM_ZMODE_MASK, zmode_val(mode))
mode_persp(r, perspective) == mode_change_som(r, SOM_TEXTURE_PERSP, persp_val(perspective))

\* RdpQ::mode_push (rdpq.rs:1249-1252) and the drop of its ModeFrame
\* (rdpq.rs:1462-1466), which ModeFrame::pop runs by consuming the frame
RdpQ_mode_push(r) == rdpq_mode_push(r)
ModeFrame_drop_forgotten(r) == r
ModeFrame_drop(r) == rdpq_mode_pop(r)

\* RdpQ::mode_begin (rdpq.rs:1255-1258) and the drop of its ModeFreeze
\* (rdpq.rs:1481-1485), which ModeFreeze::end runs by consuming it
RdpQ_mode_begin(r) == rdpq_mode_begin(r)
ModeFreeze_drop_forgotten(r) == r
ModeFreeze_drop(r) == rdpq_mode_end(r)

\* Blender formulas (rdpq.rs:2401) are words with these flags; bit 30 stands
\* for the formula proper
SOM_BLENDING == { 14 }
SOMX_BLEND_2PASS == { 15 }
SOMX_FOG == { 32 }
Blenders == SUBSET (SOMX_BLEND_2PASS \cup { 30 })

\* the engine keeps the blender and the fog formula it was last given
rdpq_fixup_mode(r, cmd_id, w0, w1) ==
    IF cmd_id = "RDPQ_CMD_SET_BLENDING_MODE" THEN [ r EXCEPT !.blend = w1 ]
    ELSE [ r EXCEPT !.fog = w1 ]

\* RdpQModes::mode_blender (rdpq.rs:1345-1351)
mode_blender(r, blend) ==
    rdpq_fixup_mode(r, "RDPQ_CMD_SET_BLENDING_MODE", 0,
                    IF blend # { } THEN blend \cup SOM_BLENDING ELSE blend)

\* RdpQModes::mode_fog (rdpq.rs:1354-1367)
mode_fog(r, fog) ==
    IF fog # { } /\ fog \cap SOMX_BLEND_2PASS # { } THEN [ r EXCEPT !.fatal = TRUE ]
    ELSE rdpq_fixup_mode(mode_change_som(r, SOMX_FOG, IF fog # { } THEN SOMX_FOG ELSE { }),
                         "RDPQ_CMD_SET_FOG_MODE", 0,
                         IF fog # { } THEN fog \cup SOM_BLENDING ELSE fog)

(***************************************************************************)
(* Setters that write a side register next to the mode bits:               *)
(* RdpQModes::mode_alphacompare (rdpq.rs:1378-1387) and mode_zoverride     *)
(* (rdpq.rs:1398-1406), over RdpQ::set_blend_color (rdpq.rs:686-690),      *)
(* RdpQ::set_prim_depth_raw (rdpq.rs:457-471) and Color (graphics.rs).     *)
(* A z is the fraction << numerator, denominator >>.                       *)
(***************************************************************************)
SOM_ALPHACOMPARE_THRESHOLD == { 0 }
SOM_ALPHACOMPARE_NOISE == { 0, 1 }
SOM_ALPHACOMPARE_MASK == { 0, 1 }
SOM_ZSOURCE_PRIM == { 2 }
RDPQ_CMD_SET_PRIM_DEPTH == 46
RDPQ_CMD_SET_BLEND_COLOR == 57

\* a command of two words handed to the engine
rdpq_write8(r, cmd_id, arg0, arg1) ==
    [ r EXCEPT !.cmds = Append(@, << cmd_id, arg0, arg1 >>) ]

rdpq_write8_syncchange(r, cmd_id, arg0, arg1, autosync) ==
    [ r EXCEPT !.cmds = Append(@, << cmd_id, arg0, arg1 >>) ]

\* (value & mask) << shift, for a mask of the low bits
carg(value, mask, shift) == (value % (mask + 1)) * 2 ^ shift

\* `as u8' and `as u32 & 0xFFFF' of a signed integer
AsU8(x) == x % 2 ^ 8
AsU16(x) == x % 2 ^ 16

\* (z * 0x7FFF as f32) as u16: the product cut to an integer, saturating
PrimZ(z) ==
    LET v == (z[1] * 32767) \div z[2]
    IN  IF v < 0 THEN 0 ELSE IF v > 65535 THEN 65535 ELSE v

Color_rgba32(red, green, blue, alpha) == [ r |-> red, g |-> green, b |-> blue, a |-> alpha ]
Color_into_u32(color) == color.r * 2 ^ 24 + color.g * 2 ^ 16 + color.b * 2 ^ 8 + color.a

Abs(x) == IF x < 0 THEN -x ELSE x
PowerOf2OrZero(x) == x = 0 \/ \E k \in 0 .. 15 : x = 2 ^ k

RdpQ_set_prim_depth_raw(r, prim_z, prim_dz) ==
    IF prim_z > 32767 \/ ~PowerOf2OrZero(Abs(prim_dz)) THEN [ r EXCEPT !.fatal = TRUE ]
    ELSE rdpq_write8(r, RDPQ_CMD_SET_PRIM_DEPTH, 0,
                     carg(prim_z, 65535, 16) + carg(AsU16(prim_dz), 65535, 0))

RdpQ_set_blend_color(r, color) ==
    rdpq_write8_syncchange(r, RDPQ_CMD_SET_BLEND_COLOR, 0, Color_into_u32(color), "AUTOSYNC_PIPE")

mode_alphacompare(r, threshold) ==
    IF threshold = 0 THEN mode_change_som(r, SOM_ALPHACOMPARE_MASK, { })
    ELSE IF threshold > 0
    THEN RdpQ_set_blend_color(
             mode_change_som(r, SOM_ALPHACOMPARE_MASK, SOM_ALPHACOMPARE_THRESHOLD),
             Color_rgba32(0, 0, 0, AsU8(threshold)))
    ELSE mode_change_som(r, SOM_ALPHACOMPARE_MASK, SOM_ALPHACOMPARE_NOISE)

mode_zoverride(r, enable, z, deltaz) ==
    LET r1 == IF enable THEN RdpQ_set_prim_depth_raw(r, PrimZ(z), deltaz) ELSE r
    IN  IF r1.fatal THEN r1
        ELSE mode_change_som(r1, SOM_ZSOURCE_PRIM, IF enable THEN SOM_ZSOURCE_PRIM ELSE { })

(***************************************************************************)
(* RdpQ::load_block_fx and RdpQ::load_block (rdpq.rs:546-571).  The        *)
(* arithmetic is that of u16 in a build with the debug assertions on: a    *)
(* failed assertion, a subtraction below zero, a sum above 65535 and a     *)
(* division by zero all panic.                                             *)
(***************************************************************************)
RDPQ_CMD_LOAD_BLOCK == 51

U16Max == 65535

RdpQ_load_block_fx(r, tile, s0, t0, num_texels, dxt) ==
    IF num_texels - 1 < 0 THEN [ r EXCEPT !.fatal = TRUE ]
    ELSE rdpq_write8_syncchange(r, RDPQ_CMD_LOAD_BLOCK,
                                carg(s0, 4095, 12) + carg(t0, 4095, 0),
                                carg(tile, 7, 24) + carg(num_texels - 1, 4095, 12)
                                    + carg(dxt, 4095, 0),
                                "AUTOSYNC_TILE")

RdpQ_load_block(r, tile, s0, t0, num_texels, tmem_pitch) ==
    IF num_texels > 2048 \/ tmem_pitch % 8 # 0 THEN [ r EXCEPT !.fatal = TRUE ]
    ELSE LET words == tmem_pitch \div 8
         IN  IF 2048 + words > U16Max \/ 2048 + words - 1 < 0 \/ words = 0
             THEN [ r EXCEPT !.fatal = TRUE ]
             ELSE RdpQ_load_block_fx(r, tile, s0, t0, num_texels,
                                     (2048 + words - 1) \div words)

(***************************************************************************)
(* Must-finish handles.  Drop for Write, Highpri, BlockBuilder, Attachment *)
(* and TexMulti builds a DropBomb around the handle and lets it go at      *)
(* once; Drop for DropBomb panics unconditionally.  A finishing call that  *)
(* wraps self in ManuallyDrop never reaches it; one that takes self by     *)
(* value without doing so drops the handle when it returns.                *)
(***************************************************************************)
DropBomb_defused(s) == s

DropBomb(s) == [ s EXCEPT !.fatal = TRUE ]

(***************************************************************************)
(* Render targets.  A surface is its name and size; the attachment stack   *)
(* holds (colour, depth) pairs, the last one current.  The clip rectangle  *)
(* is the scissor the engine last configured.                              *)
(***************************************************************************)
NoSurface == [ id |-> "none", width |-> 0, height |-> 0 ]
Surfaces == { [ id |-> "A", width |-> 2, height |-> 1 ],
              [ id |-> "B", width |-> 1, height |-> 2 ] }
DepthSurfaces == { NoSurface, [ id |-> "Z", width |-> 2, height |-> 2 ] }
NoClip == [ x0 |-> 0, y0 |-> 0, x1 |-> 0, y1 |-> 0 ]
FullBounds(surface) == [ x0 |-> 0, y0 |-> 0, x1 |-> surface.width, y1 |-> surface.height ]
AutoTmemOff == -1

rdpq_config_disable(r, autoscissor) ==
    IF autoscissor THEN [ r EXCEPT !.autoscissor = FALSE ] ELSE r

rdpq_attach_keeping_clip(r, surf_color, surf_z) ==
    [ r EXCEPT !.targets = Append(@, [ color |-> surf_color, z |-> surf_z ]) ]

rdpq_attach(r, surf_color, surf_z) ==
    [ r EXCEPT !.targets = Append(@, [ color |-> surf_color, z |-> surf_z ]),
               !.clip = IF r.autoscissor THEN FullBounds(surf_color) ELSE @ ]

rdpq_detach_cb(r) ==
    IF r.targets = << >> THEN [ r EXCEPT !.fatal = TRUE ]
    ELSE [ r EXCEPT !.targets = SubSeq(@, 1, Len(@) - 1) ]

rdpq_detach_show(r) ==
    IF r.targets = << >> THEN [ r EXCEPT !.fatal = TRUE ]
    ELSE [ rdpq_detach_cb(r) EXCEPT !.shown = r.targets[Len(r.targets)].color.id ]

RdpQ_config_disable(r, autoscissor) == rdpq_config_disable(r, autoscissor)

RdpQ_attach(r, surf_color, surf_z) == rdpq_attach(r, surf_color, surf_z)

Attachment_drop(r) == DropBomb(r)

\* detach(self) and detach_show(self) own the handle and let it go on return
Attachment_detach(r) == Attachment_drop(rdpq_detach_cb(r))

Attachment_detach_show(r) == Attachment_drop(rdpq_detach_show(r))

\* self.detach() comes first, so the wait that follows it is never reached
Attachment_detach_wait(r) == Attachment_detach(r)

\* detach_cb(&mut self) only borrows the handle, which stays to be finished
Attachment_detach_cb(r) == rdpq_detach_cb(r)

(***************************************************************************)
(* Automatic tile-memory layout.  r.tmem is the implicit cursor in bytes,  *)
(* AutoTmemOff outside auto mode; r.tmem_nest counts the begins not yet    *)
(* ended, so that a begin inside auto mode keeps the cursor it finds.      *)
(***************************************************************************)
TMEM_SIZE == 4096
TexSizes == { 1024, 2048, 4096 }

rdpq_set_tile_autotmem(r, tmem_bytes) ==
    IF tmem_bytes = 0
    THEN [ r EXCEPT !.tmem = IF r.tmem_nest = 0 THEN 0 ELSE @, !.tmem_nest = @ + 1 ]
    ELSE IF r.tmem_nest = 0 THEN [ r EXCEPT !.fatal = TRUE ]
    ELSE IF tmem_bytes < 0
    THEN [ r EXCEPT !.tmem = IF r.tmem_nest = 1 THEN AutoTmemOff ELSE @, !.tmem_nest = @ - 1 ]
    ELSE IF r.tmem + tmem_bytes > TMEM_SIZE THEN [ r EXCEPT !.fatal = TRUE ]
    ELSE [ r EXCEPT !.tmem = @ + tmem_bytes ]

rdpq_tex_multi_begin(r) == rdpq_set_tile_autotmem(r, 0)

rdpq_tex_upload_unchecked(r, size) ==
    IF r.tmem_nest = 0 THEN r ELSE [ r EXCEPT !.tmem = @ + size ]

\* outside auto mode the texture goes to the address the caller gave
rdpq_tex_upload(r, size) ==
    IF r.tmem_nest = 0 THEN r ELSE rdpq_set_tile_autotmem(r, size)

rdpq_tex_multi_end(r) == rdpq_set_tile_autotmem(r, AutoTmemOff)

RdpQ_set_tile_autotmem(r, tmem_bytes) == rdpq_set_tile_autotmem(r, tmem_bytes)

RdpQ_tex_multi_begin(r) == rdpq_tex_multi_begin(r)

TexMulti_tex_upload(r, size) == rdpq_tex_upload(r, size)

TexMulti_drop(r) == DropBomb(r)

\* end(self) owns the handle and lets it go on return
TexMulti_end(r) == TexMulti_drop(rdpq_tex_multi_end(r))

(***************************************************************************)
(* The render-mode calls.  mh.open is the handles not yet dropped: a       *)
(* ModeFrame or ModeFreeze borrows the RdpQ (or the handle) it was made    *)
(* from, so only the innermost can be dropped.  mh.ref is the register of  *)
(* the same calls made without any freeze bracket; mh.saved is the modes   *)
(* current at each push still open, mh.pre the mode just before the last   *)
(* pop; mh.batch counts the changes made in the last freeze bracket, with  *)
(* the union of their masks and whether two of them overlapped.            *)
(***************************************************************************)
ModeReady == ~rdp.fatal /\ mh.ops < cfg.budget
\* a call starts with nothing handed over and nothing sent yet
Called(r) == [ r EXCEPT !.cmds = << >>, !.updates = << >> ]
Frozen == \E i \in 1 .. Len(mh.open) : mh.open[i] = "freeze"
Innermost == IF mh.open = << >> THEN "none" ELSE mh.open[Len(mh.open)]

ModeCallArgs(op, r, ref, mask, val, args) ==
    /\ rdp' = r
    /\ mh' = [ mh EXCEPT !.ops = @ + 1, !.last = op, !.ref = ref, !.args = args,
                         !.masks = IF mh.track THEN @ \cup mask ELSE @,
                         !.vals = IF mh.track THEN @ \cup val ELSE @,
                         !.within = @ /\ (mh.track => val \subseteq mask),
                         !.batch = IF Frozen
                                   THEN [ n |-> @.n + 1, masks |-> @.masks \cup mask,
                                          overlap |-> @.overlap \/ @.masks \cap mask # { } ]
                                   ELSE @ ]
    /\ UNCHANGED << qvars, dev >>

ModeCall(op, r, ref, mask, val) == ModeCallArgs(op, r, ref, mask, val, << >>)

ChangeOtherModesRaw(mask, val) ==
    /\ ModeReady
    /\ ModeCall("change_other_modes_raw",
                RdpQ_change_other_modes_raw(Called(rdp), mask, val),
                RdpQ_change_other_modes_raw(Called(mh.ref), mask, val), mask, val)

LoadBlock(tile, s0, t0, num_texels, tmem_pitch) ==
    /\ ModeReady
    /\ ModeCallArgs("load_block",
                    RdpQ_load_block(Called(rdp), tile, s0, t0, num_texels, tmem_pitch),
                    mh.ref, { }, { }, << tile, s0, t0, num_texels, tmem_pitch >>)

ModeZmode(mode) ==
    /\ ModeReady
    /\ ModeCall("mode_zmode", mode_zmode(Called(rdp), mode),
                mode_zmode(Called(mh.ref), mode),
                SOM_ZMODE_MASK, zmode_val(mode))

ModePersp(perspective) ==
    /\ ModeReady
    /\ ModeCall("mode_persp", mode_persp(Called(rdp), perspective),
                mode_persp(Called(mh.ref), perspective),
                SOM_TEXTURE_PERSP, persp_val(perspective))

ModePush ==
    /\ ModeReady
    /\ LET r == RdpQ_mode_push(Called(rdp))
       IN  /\ rdp' = r
           /\ mh' = [ mh EXCEPT !.ops = @ + 1, !.last = "mode_push",
                                !.ref = RdpQ_mode_push(Called(@)),
                                !.saved = Append(@, rdp.som),
                                !.open = IF r.fatal THEN @ ELSE Append(@, "frame") ]
    /\ UNCHANGED << qvars, dev >>

ModePop ==
    /\ ModeReady
    /\ Innermost = "frame"
    /\ rdp' = ModeFrame_drop(Called(rdp))
    /\ mh' = [ mh EXCEPT !.ops = @ + 1, !.last = "mode_pop", !.pre = rdp.som,
                         !.ref = ModeFrame_drop(Called(@)),
                         !.popped = mh.saved[Len(mh.saved)],
                         !.saved = SubSeq(@, 1, Len(@) - 1),
                         !.open = SubSeq(@, 1, Len(@) - 1) ]
    /\ UNCHANGED << qvars, dev >>

\* a bracket inside a bracket is not modelled
ModeBegin ==
    /\ ModeReady
    /\ ~Frozen
    /\ rdp' = RdpQ_mode_begin(Called(rdp))
    /\ mh' = [ mh EXCEPT !.ops = @ + 1, !.last = "mode_begin",
                         !.open = Append(@, "freeze"),
                         !.batch = [ n |-> 0, masks |-> { }, overlap |-> FALSE ] ]
    /\ UNCHANGED << qvars, dev >>

ModeEnd ==
    /\ ModeReady
    /\ Innermost = "freeze"
    /\ rdp' = ModeFreeze_drop(Called(rdp))
    /\ mh' = [ mh EXCEPT !.ops = @ + 1, !.last = "mode_end",
                         !.open = SubSeq(@, 1, Len(@) - 1) ]
    /\ UNCHANGED << qvars, dev >>

ModeBlender(blend) ==
    /\ ModeReady
    /\ ModeCall("mode_blender", mode_blender(Called(rdp), blend), mh.ref, { }, { })

ModeFog(fog) ==
    /\ ModeReady
    /\ ModeCall("mode_fog", mode_fog(Called(rdp), fog), mh.ref, { }, { })

ModeAlphacompare(threshold) ==
    /\ ModeReady
    /\ ModeCallArgs("mode_alphacompare", mode_alphacompare(Called(rdp), threshold),
                    Called(mode_alphacompare(mh.ref, threshold)),
                    SOM_ALPHACOMPARE_MASK, { }, << threshold >>)

ModeZoverride(enable, z, deltaz) ==
    /\ ModeReady
    /\ ModeCallArgs("mode_zoverride", mode_zoverride(Called(rdp), enable, z, deltaz),
                    Called(mode_zoverride(mh.ref, enable, z, deltaz)),
                    SOM_ZSOURCE_PRIM, { }, << enable, z, deltaz >>)

(***************************************************************************)
(* The attachment calls.  mh.atts is the stack found by each attach still  *)
(* open, mh.expect the one found by the attach of the handle last          *)
(* detached, mh.clip the clip rectangle just before the last attach.       *)
(***************************************************************************)
ConfigDisable(autoscissor) ==
    /\ ModeReady
    /\ rdp' = RdpQ_config_disable(Called(rdp), autoscissor)
    /\ mh' = [ mh EXCEPT !.ops = @ + 1, !.last = "config_disable" ]
    /\ UNCHANGED << qvars, dev >>

Attach(surf_color, surf_z) ==
    /\ ModeReady
    /\ rdp' = RdpQ_attach(Called(rdp), surf_color, surf_z)
    /\ mh' = [ mh EXCEPT !.ops = @ + 1, !.last = "attach", !.clip = rdp.clip,
                         !.atts = Append(@, rdp.targets),
                         !.open = Append(@, "attachment") ]
    /\ UNCHANGED << qvars, dev >>

Detach(variant) ==
    /\ ModeReady
    /\ Innermost = "attachment"
    /\ rdp' = CASE variant = "detach" -> Attachment_detach(Called(rdp))
                [] variant = "detach_show" -> Attachment_detach_show(Called(rdp))
                [] OTHER -> Attachment_detach_wait(Called(rdp))
    /\ mh' = [ mh EXCEPT !.ops = @ + 1, !.last = variant,
                         !.expect = mh.atts[Len(mh.atts)],
                         !.atts = SubSeq(@, 1, Len(@) - 1),
                         !.open = SubSeq(@, 1, Len(@) - 1) ]
    /\ UNCHANGED << qvars, dev >>

DetachCb ==
    /\ ModeReady
    /\ Innermost = "attachment"
    /\ rdp' = Attachment_detach_cb(Called(rdp))
    /\ mh' = [ mh EXCEPT !.ops = @ + 1, !.last = "detach_cb",
                         !.expect = mh.atts[Len(mh.atts)] ]
    /\ UNCHANGED << qvars, dev >>

(***************************************************************************)
(* The texture calls.  mh.tmem is the cursor just before the last call,    *)
(* mh.size the size that call uploaded or added.                           *)
(***************************************************************************)
SetTileAutotmem(tmem_bytes) ==
    /\ ModeReady
    /\ tmem_bytes # 0 => rdp.tmem_nest > 0
    /\ rdp' = RdpQ_set_tile_autotmem(Called(rdp), tmem_bytes)
    /\ mh' = [ mh EXCEPT !.ops = @ + 1, !.last = "set_tile_autotmem",
                         !.tmem = rdp.tmem, !.size = tmem_bytes ]
    /\ UNCHANGED << qvars, dev >>

TexMultiBegin ==
    /\ ModeReady
    /\ rdp' = RdpQ_tex_multi_begin(Called(rdp))
    /\ mh' = [ mh EXCEPT !.ops = @ + 1, !.last = "tex_multi_begin",
                         !.tmem = rdp.tmem, !.size = 0,
                         !.open = Append(@, "texmulti") ]
    /\ UNCHANGED << qvars, dev >>

TexUpload(size) ==
    /\ ModeReady
    /\ Innermost = "texmulti"
    /\ rdp' = TexMulti_tex_upload(Called(rdp), size)
    /\ mh' = [ mh EXCEPT !.ops = @ + 1, !.last = "tex_upload",
                         !.tmem = rdp.tmem, !.size = size ]
    /\ UNCHANGED << qvars, dev >>

TexMultiEnd ==
    /\ ModeReady
    /\ Innermost = "texmulti"
    /\ rdp' = TexMulti_end(Called(rdp))
    /\ mh' = [ mh EXCEPT !.ops = @ + 1, !.last = "tex_multi_end",
                         !.tmem = rdp.tmem, !.size = 0,
                         !.open = SubSeq(@, 1, Len(@) - 1) ]
    /\ UNCHANGED << qvars, dev >>

(***************************************************************************)
(* A must-finish handle leaves scope without its finishing call: Drop for  *)
(* Write, Highpri, BlockBuilder, Attachment or TexMulti runs.  The panic   *)
(* ends the program, for the queue and for the render calls alike.         *)
(***************************************************************************)
Undroppable == { "Write", "Highpri", "BlockBuilder", "Attachment", "TexMulti" }

UndroppableDrop(kind) ==
    /\ ~fatal /\ ~rdp.fatal
    /\ CASE kind = "Write" -> w.active
         [] kind = "Highpri" -> rspq_ctx = "highpri" /\ ~w.active
         [] kind = "BlockBuilder" -> builders > 0 /\ ~w.active
         [] kind = "Attachment" -> Innermost = "attachment"
         [] OTHER -> Innermost = "texmulti"
    /\ fatal' = DropBomb(State).fatal
    /\ rdp' = DropBomb(rdp)
    /\ mh' = [ mh EXCEPT !.last = "drop", !.dropped = kind ]
    /\ UNCHANGED << cfg, mem, rspq_cur_pointer, rspq_cur_sentinel, rspq_ctx, lowpri, highpri,
                    rspq_block, blocks, nchunks, sp_status, w, builders,
                    rspq_syncpoints_genid, rspq_syncpoints_done, tokens, rsp, hist, dev >>

(***************************************************************************)
(* Subsystem handles: display::init and Drop for Display                   *)
(* (display.rs:167-195), audio::init and Drop for Audio (audio.rs:9-31),   *)
(* mixer::init and Drop for Mixer (mixer.rs:13-27).  A Mixer gives access  *)
(* to the Audio it borrows through Deref (mixer.rs:9, macros.rs:44-49),    *)
(* which builds an Audio(()) of its own and returns a reference to it: the *)
(* temporary has a destructor and is dropped when deref returns.           *)
(* dev.displays and dev.audios count the handles alive; display_open and   *)
(* audio_open are the subsystems' own state, reinit whether one was        *)
(* initialized while open.                                                 *)
(***************************************************************************)
NoDevices ==
    [ DISPLAY_INIT |-> FALSE, AUDIO_INIT |-> FALSE, displays |-> 0, audios |-> 0,
      mixers |-> 0, display_open |-> FALSE, audio_open |-> FALSE, reinit |-> FALSE,
      panicked |-> FALSE, ops |-> 0, last |-> "none" ]

display_init(d) == [ d EXCEPT !.display_open = TRUE, !.reinit = @ \/ d.display_open ]
display_close(d) == [ d EXCEPT !.display_open = FALSE ]
audio_init(d) == [ d EXCEPT !.audio_open = TRUE, !.reinit = @ \/ d.audio_open ]
audio_close(d) == [ d EXCEPT !.audio_open = FALSE ]

Display_init(d) ==
    IF d.DISPLAY_INIT # FALSE THEN [ d EXCEPT !.panicked = TRUE ]
    ELSE [ display_init([ d EXCEPT !.DISPLAY_INIT = TRUE ]) EXCEPT !.displays = @ + 1 ]

Display_drop(d) ==
    [ display_close(d) EXCEPT !.DISPLAY_INIT = FALSE, !.displays = @ - 1 ]

Audio_init(d) ==
    IF d.AUDIO_INIT # FALSE THEN [ d EXCEPT !.panicked = TRUE ]
    ELSE [ audio_init([ d EXCEPT !.AUDIO_INIT = TRUE ]) EXCEPT !.audios = @ + 1 ]

Audio_drop(d) ==
    [ audio_close(d) EXCEPT !.AUDIO_INIT = FALSE, !.audios = @ - 1 ]

Mixer_init(d) == [ d EXCEPT !.mixers = @ + 1 ]
Mixer_drop(d) == [ d EXCEPT !.mixers = @ - 1 ]
\* &Audio(()) lives until deref returns, then Drop for Audio runs on it
Mixer_deref(d) == Audio_drop([ d EXCEPT !.audios = @ + 1 ])

DevReady == ~dev.panicked /\ dev.ops < cfg.budget

DevCall(op, d) ==
    /\ DevReady
    /\ dev' = [ d EXCEPT !.ops = @ + 1, !.last = op ]
    /\ UNCHANGED << qvars, rdp, mh >>

DisplayInit == DevCall("display_init", Display_init(dev))
DisplayDrop == dev.displays > 0 /\ DevCall("display_drop", Display_drop(dev))
AudioInit == DevCall("audio_init", Audio_init(dev))
\* an Audio borrowed by a Mixer cannot be dropped
AudioDrop == dev.audios > dev.mixers /\ DevCall("audio_drop", Audio_drop(dev))
MixerInit == dev.audios > dev.mixers /\ DevCall("mixer_init", Mixer_init(dev))
MixerDeref == dev.mixers > 0 /\ DevCall("mixer_deref", Mixer_deref(dev))
MixerDrop == dev.mixers > 0 /\ DevCall("mixer_drop", Mixer_drop(dev))

(***************************************************************************)
(* The state after rspq::init (rspq.rs:23-28).                             *)
(***************************************************************************)
NoLast ==
    [ op |-> "init", ovl |-> 0, cmd |-> 0, args |-> << >>, first |-> 0, sentinel |-> 0,
      ctx |-> "lowpri", block |-> 0, buf |-> << 0, 0 >>, stores |-> << >>, switches |-> 0,
      token |-> 0, failed |-> FALSE, free |-> TRUE ]

\* the queue with nothing written, its two syncpoint counters at `start'
QueueInitFrom(sizes, budget, starts) ==
    /\ cfg \in [ pos : Layouts, buf_size : sizes, budget : { budget }, start : starts ]
    /\ mem = [ a \in Addrs |-> 0 ]
    /\ rspq_ctx = "lowpri"
    /\ lowpri = [ buf_idx |-> 0, cur |-> Base(cfg, 1),
                  sentinel |-> Base(cfg, 1) + cfg.buf_size - RSPQ_MAX_SHORT_COMMAND_SIZE ]
    /\ highpri = [ buf_idx |-> 0, cur |-> Base(cfg, 3),
                   sentinel |-> Base(cfg, 3) + BufSize - RSPQ_MAX_SHORT_COMMAND_SIZE ]
    /\ rspq_cur_pointer = lowpri.cur
    /\ rspq_cur_sentinel = lowpri.sentinel
    /\ rspq_block = 0
    /\ blocks = [ b \in 1 .. NumChunks |-> [ state |-> "none", cmds |-> 0, nesting_level |-> 0 ] ]
    /\ nchunks = 0
    /\ sp_status = [ halted |-> FALSE, bufdone_low |-> TRUE, bufdone_high |-> TRUE,
                     highpri_requested |-> FALSE ]
    /\ fatal = FALSE
    /\ w = NoWrite
    /\ builders = 0
    /\ dev = NoDevices
    /\ rspq_syncpoints_genid = cfg.start
    /\ rspq_syncpoints_done = cfg.start
    /\ tokens = << >>
    /\ rsp = [ pc |-> Base(cfg, 1), stack |-> [ i \in 0 .. (RSPQ_MAX_BLOCK_NESTING_LEVEL - 1) |-> 0 ],
               depth |-> 0, trace |-> << >>, highpri |-> FALSE, lowpri_pc |-> 0,
               highpri_pc |-> Base(cfg, 3), crashed |-> FALSE, calls |-> << >>,
               syncs |-> 0 ]
    /\ hist = [ ops |-> 0, runs |-> 0, called |-> << >>, written |-> << >>, recorded |-> << >>,
                waiting |-> 0,
                hp_written |-> << >>, last |-> NoLast,
                wb |-> [ ovl |-> 0, cmd |-> 0, size |-> 0, args |-> << >>, block |-> 0,
                         ctx |-> "lowpri" ] ]

QueueInit(sizes, budget) == QueueInitFrom(sizes, budget, { 0 })

\* the render-mode engine with nothing saved and no bracket open
RdpWith(som) ==
    [ som |-> som, hw |-> som, stack |-> << >>, frozen |-> FALSE, fatal |-> FALSE,
      blend |-> { }, fog |-> { },
      targets |-> << >>, clip |-> NoClip, autoscissor |-> TRUE, shown |-> "none",
      tmem |-> AutoTmemOff, tmem_nest |-> 0, cmds |-> << >>, updates |-> << >> ]

NoModeCalls(som, track) ==
    [ ops |-> 0, last |-> "init", pre |-> som, init |-> som, track |-> track,
      masks |-> { }, vals |-> { }, within |-> TRUE, ref |-> RdpWith(som),
      saved |-> << >>, popped |-> som, open |-> << >>,
      atts |-> << >>, expect |-> << >>, clip |-> NoClip, dropped |-> "none",
      tmem |-> AutoTmemOff, size |-> 0, args |-> << >>,
      batch |-> [ n |-> 0, masks |-> { }, overlap |-> FALSE ] ]

InitRdp(soms, track) ==
    /\ rdp \in { RdpWith(som) : som \in soms }
    /\ mh = NoModeCalls(rdp.som, track)

InitWith(sizes, budget) == QueueInit(sizes, budget) /\ InitRdp({ { } }, FALSE)

NextArgs ==
    IF w.active /\ Len(hist.wb.args) < Len(CmdArgs[hist.wb.cmd])
    THEN { CmdArgs[hist.wb.cmd][Len(hist.wb.args) + 1] }
    ELSE { }

(***************************************************************************)
(* Spec: every call of the API, in any order, against the running          *)
(* consumer.                                                               *)
(***************************************************************************)
Init == InitWith({ BufSize }, MaxOps)

Next ==
    \/ \E ovl_id \in Overlays, cmd_id \in UserCmds : Write(ovl_id, cmd_id, CmdArgs[cmd_id])
    \/ \E ovl_id \in Overlays, cmd_id \in { 2, 3 } : WriteBegin(ovl_id, cmd_id, CmdWords(cmd_id))
    \/ \E value \in NextArgs : WriteArg(value)
    \/ WriteEnd
    \/ Flush
    \/ BlockBegin
    \/ BlockEnd
    \/ \E b \in 1 .. NumChunks : BlockRun(b)
    \/ Syncpoint
    \/ SyncpointCb
    \/ HighpriBegin
    \/ HighpriEnd
    \/ RspStep

Spec == Init /\ [][Next]_vars

(***************************************************************************)
(* SpecStream: the normal stream alone, for both live-buffer sizes, with   *)
(* the commands whose stored words have the layout the overlay declares    *)
(* (write without argument words, write_begin / arg / end).                *)
(***************************************************************************)
InitStream == InitWith(BufSizes, MaxOps + 2)

NextStream ==
    \/ \E ovl_id \in Overlays : Write(ovl_id, 1, CmdArgs[1])
    \/ \E ovl_id \in Overlays, cmd_id \in { 2, 3 } : WriteBegin(ovl_id, cmd_id, CmdWords(cmd_id))
    \/ \E value \in NextArgs : WriteArg(value)
    \/ WriteEnd
    \/ Flush
    \/ RspStep

SpecStream == InitStream /\ [][NextStream]_vars

(***************************************************************************)
(* SpecBlock: recording and running blocks on the normal stream.           *)
(***************************************************************************)
InitBlock == InitWith({ BufSize }, MaxOps + 2)

NextBlock ==
    \/ \E ovl_id \in Overlays, cmd_id \in { 1, 2 } : Write(ovl_id, cmd_id, CmdArgs[cmd_id])
    \/ Flush
    \/ BlockBegin
    \/ BlockEnd
    \/ \E b \in 1 .. NumChunks : BlockRun(b)
    \/ RspStep

SpecBlock == InitBlock /\ [][NextBlock]_vars

(***************************************************************************)
(* SpecSync: syncpoints and deferred calls on the normal stream.           *)
(***************************************************************************)
InitSync == InitWith({ BufSize }, MaxOps + 1)

NextSync ==
    \/ \E ovl_id \in Overlays : Write(ovl_id, 1, CmdArgs[1])
    \/ \E ovl_id \in Overlays : WriteBegin(ovl_id, 3, CmdWords(3))
    \/ \E value \in NextArgs : WriteArg(value)
    \/ WriteEnd
    \/ Flush
    \/ Syncpoint
    \/ CallDeferred
    \/ \E i \in 1 .. Len(tokens) : RunCallback(i)
    \/ RspStep

SpecSync == InitSync /\ [][NextSync]_vars

(***************************************************************************)
(* SpecFree: blocks that are recorded, run and dropped.                    *)
(***************************************************************************)
InitFree == InitWith({ BufSize }, MaxOps + 1)

NextFree ==
    \/ \E ovl_id \in Overlays : Write(ovl_id, 1, CmdArgs[1])
    \/ Flush
    \/ BlockBegin
    \/ BlockEnd
    \/ \E b \in 1 .. NumChunks : BlockRun(b)
    \/ \E b \in 1 .. NumChunks : BlockDrop(b)
    \/ RspStep

SpecFree == InitFree /\ [][NextFree]_vars

(***************************************************************************)
(* SpecHighpri: high-priority segments around writes to the normal stream, *)
(* with commands of one word.                                              *)
(***************************************************************************)
InitHighpri == InitWith({ BufSize }, MaxOps + 3)

NextHighpri ==
    \/ \E ovl_id \in Overlays, cmd_id \in { 1, 2 } : Write(ovl_id, cmd_id, << >>)
    \/ Flush
    \/ HighpriBegin
    \/ HighpriEnd
    \/ RspStep

SpecHighpri == InitHighpri /\ [][NextHighpri]_vars

\* render-mode changes with masks that do not overlap, from any register;
\* a value with bits outside its mask ends the sequence
InitChange ==
    /\ QueueInit({ BufSize }, MaxOps + 1)
    /\ cfg.pos[1] = 0
    /\ InitRdp(Regs, TRUE)

NextChange ==
    \/ \E mask \in Regs, val \in Regs :
            mh.within /\ mask \cap mh.masks = { } /\ ChangeOtherModesRaw(mask, val)
    \/ \E mode \in 0 .. 3 :
            mh.within /\ SOM_ZMODE_MASK \cap mh.masks = { } /\ ModeZmode(mode)
    \/ \E perspective \in BOOLEAN :
            mh.within /\ SOM_TEXTURE_PERSP \cap mh.masks = { } /\ ModePersp(perspective)

SpecChange == InitChange /\ [][NextChange]_vars

\* render-mode changes, of bits selected by their masks, inside nested
\* frames, from the register with no mode bit set
InitFrame ==
    /\ QueueInit({ BufSize }, MaxOps + 2)
    /\ cfg.pos[1] = 0
    /\ InitRdp({ { } }, FALSE)

NextFrame ==
    \/ \E mask \in Regs : \E val \in SUBSET mask : ChangeOtherModesRaw(mask, val)
    \/ \E mode \in 0 .. 3 : ModeZmode(mode)
    \/ \E perspective \in BOOLEAN : ModePersp(perspective)
    \/ ModePush
    \/ ModePop

SpecFrame == InitFrame /\ [][NextFrame]_vars

\* render-mode changes inside and outside freeze brackets, from the
\* register with no mode bit set
InitFreeze ==
    /\ QueueInit({ BufSize }, MaxOps + 1)
    /\ cfg.pos[1] = 0
    /\ InitRdp({ { } }, FALSE)

NextFreeze ==
    \/ \E mask \in Regs, val \in Regs : ChangeOtherModesRaw(mask, val)
    \/ \E mode \in 0 .. 3 : ModeZmode(mode)
    \/ \E perspective \in BOOLEAN : ModePersp(perspective)
    \/ ModeBegin
    \/ ModeEnd

SpecFreeze == InitFreeze /\ [][NextFreeze]_vars

\* the calls of crate::rdpq beyond the mode register
InitRdpq ==
    /\ QueueInit({ BufSize }, MaxOps + 2)
    /\ cfg.pos[1] = 0
    /\ InitRdp({ { } }, FALSE)

NextRdpq ==
    \/ \E blend \in Blenders : ModeBlender(blend)
    \/ \E fog \in Blenders : ModeFog(fog)
    \/ \E autoscissor \in BOOLEAN : ConfigDisable(autoscissor)
    \/ \E surf_color \in Surfaces, surf_z \in DepthSurfaces : Attach(surf_color, surf_z)
    \/ \E variant \in { "detach", "detach_show", "detach_wait" } : Detach(variant)
    \/ DetachCb
    \/ \E tmem_bytes \in { AutoTmemOff, 0 } \cup TexSizes : SetTileAutotmem(tmem_bytes)
    \/ TexMultiBegin
    \/ \E size \in TexSizes : TexUpload(size)
    \/ TexMultiEnd

SpecRdpq == InitRdpq /\ [][NextRdpq]_vars

InitDrop ==
    /\ QueueInit({ BufSize }, MaxOps)
    /\ cfg.pos[1] = 0
    /\ InitRdp({ { } }, FALSE)

NextDrop ==
    \/ \E ovl_id \in Overlays : WriteBegin(ovl_id, 3, CmdWords(3))
    \/ \E value \in NextArgs : WriteArg(value)
    \/ WriteEnd
    \/ HighpriBegin
    \/ HighpriEnd
    \/ BlockBegin
    \/ BlockEnd
    \/ \E surf_color \in Surfaces : Attach(surf_color, NoSurface)
    \/ DetachCb
    \/ TexMultiBegin
    \/ \E size \in TexSizes : TexUpload(size)
    \/ \E kind \in Undroppable : UndroppableDrop(kind)

SpecDrop == InitDrop /\ [][NextDrop]_vars

InitFull == InitWith({ BufSize }, MaxOps + 2)

NextFull ==
    \/ \E ovl_id \in Overlays, cmd_id \in { 1, 4 } : Write(ovl_id, cmd_id, CmdArgs[cmd_id])
    \/ Flush
    \/ HighpriBegin
    \/ HighpriEnd
    \/ RspStep

SpecFull == InitFull /\ [][NextFull]_vars

\* the cursor API with any number of arg calls: one more than the words
\* write_begin was asked to reserve is enough to tell
AnyArgs ==
    IF w.active /\ Len(hist.wb.args) <= hist.wb.size THEN { 5, 7 } ELSE { }

InitArgs == InitWith(BufSizes, MaxOps)

NextArgsAny ==
    \/ \E ovl_id \in Overlays : Write(ovl_id, 1, CmdArgs[1])
    \/ \E ovl_id \in Overlays, cmd_id \in { 2, 3 } : WriteBegin(ovl_id, cmd_id, CmdWords(cmd_id))
    \/ \E value \in AnyArgs : WriteArg(value)
    \/ WriteEnd
    \/ Flush
    \/ RspStep

SpecArgs == InitArgs /\ [][NextArgsAny]_vars

\* every must-finish handle, opened and finished by its own call
InitFinish ==
    /\ QueueInit({ BufSize }, MaxOps)
    /\ cfg.pos[1] = 0
    /\ InitRdp({ { } }, FALSE)

NextFinish ==
    \/ \E ovl_id \in Overlays : ~rdp.fatal /\ WriteBegin(ovl_id, 3, CmdWords(3))
    \/ \E value \in NextArgs : ~rdp.fatal /\ WriteArg(value)
    \/ ~rdp.fatal /\ WriteEnd
    \/ ~rdp.fatal /\ HighpriBegin
    \/ ~rdp.fatal /\ HighpriEnd
    \/ ~rdp.fatal /\ BlockBegin
    \/ ~rdp.fatal /\ BlockEnd
    \/ \E surf_color \in Surfaces : Attach(surf_color, NoSurface)
    \/ \E variant \in { "detach", "detach_show", "detach_wait" } : Detach(variant)
    \/ TexMultiBegin
    \/ \E size \in TexSizes : TexUpload(size)
    \/ TexMultiEnd

SpecFinish == InitFinish /\ [][NextFinish]_vars

\* the coupled setters, inside and outside freeze brackets
Thresholds == { -1, 0, 1, 255, 256 }
Depths == { << 0, 1 >>, << 1, 2 >>, << 1, 1 >> }
DepthDeltas == { 0, 2, 3 }

InitCoupled ==
    /\ QueueInit({ BufSize }, MaxOps + 1)
    /\ cfg.pos[1] = 0
    /\ InitRdp({ { } }, FALSE)

NextCoupled ==
    \/ \E threshold \in Thresholds : ModeAlphacompare(threshold)
    \/ \E enable \in BOOLEAN, z \in Depths, deltaz \in DepthDeltas : ModeZoverride(enable, z, deltaz)
    \/ \E mode \in 0 .. 3 : ModeZmode(mode)
    \/ ModeBegin
    \/ ModeEnd

SpecCoupled == InitCoupled /\ [][NextCoupled]_vars

\* syncpoints on the normal stream from any value of the two counters, the
\* values just before the wrap-around included
InitWrap ==
    /\ QueueInitFrom({ BufSize }, MaxOps + 1, 0 .. (SyncRange - 1))
    /\ cfg.pos[1] = 0
    /\ InitRdp({ { } }, FALSE)

NextWrap ==
    \/ \E ovl_id \in Overlays : Write(ovl_id, 1, CmdArgs[1])
    \/ Flush
    \/ Syncpoint
    \/ RspStep

SpecWrap == InitWrap /\ [][NextWrap]_vars

\* the display and audio handles, and a mixer on the audio
InitDevices ==
    /\ QueueInit({ BufSize }, MaxOps + 4)
    /\ cfg.pos[1] = 0
    /\ InitRdp({ { } }, FALSE)

NextDevices ==
    \/ DisplayInit
    \/ DisplayDrop
    \/ AudioInit
    \/ AudioDrop
    \/ MixerInit
    \/ MixerDeref
    \/ MixerDrop

SpecDevices == InitDevices /\ [][NextDevices]_vars

\* load_block on any tile, from pitch 0 to the largest multiple of 8 of a
\* u16 and a pitch that is no multiple of 8, for 0 to 2049 texels
Pitches == { 0, 8, 16, 24, 40, 2048, 16384, 65528, 12 }
Texels == { 0, 1, 16, 2048, 2049 }
Tiles == { 0, 7 }
TexelCoords == { 0, 4 }

InitLoad ==
    /\ QueueInit({ BufSize }, MaxOps)
    /\ cfg.pos[1] = 0
    /\ InitRdp({ { } }, FALSE)

NextLoad ==
    \E tile \in Tiles, s0 \in TexelCoords, num_texels \in Texels, tmem_pitch \in Pitches :
        LoadBlock(tile, s0, 0, num_texels, tmem_pitch)

SpecLoad == InitLoad /\ [][NextLoad]_vars

InitWait == InitWith({ BufSize }, MaxOps + 1)

NextWait ==
    \/ \E ovl_id \in Overlays, cmd_id \in { 1, 2 } : Write(ovl_id, cmd_id, CmdArgs[cmd_id])
    \/ \E ovl_id \in Overlays : WriteBegin(ovl_id, 3, CmdWords(3))
    \/ \E value \in NextArgs : WriteArg(value)
    \/ WriteEnd
    \/ Flush
    \/ Syncpoint
    \/ \E i \in 1 .. Len(tokens) : SyncpointWait(i)
    \/ Wait
    \/ WaitReturn
    \/ RspStep

SpecWait == InitWait /\ [][NextWait]_vars

\* the consumer runs whenever it is not halted, and a blocked caller polls
SpecWaitFair == SpecWait /\ WF_vars(RspStep) /\ WF_vars(WaitReturn)

(***************************************************************************)
(* Properties.                                                             *)
(***************************************************************************)
\* the stores of command words a call issued, in order
CmdStores(l) == SelectSeq(l.stores, LAMBDA st : st[3] = "cmd")
\* the word a call stored at an address, -1 if it stored none there
StoredAt(l, addr) ==
    LET hits == { i \in 1 .. Len(l.stores) : l.stores[i][1] = addr /\ l.stores[i][3] = "cmd" }
    IN  IF hits = { } THEN -1
        ELSE l.stores[CHOOSE i \in hits : \A j \in hits : j <= i][2]

\* C1: after write(ovl_id, cmd_id, args), the word at the position of the
\* cursor before the call is ovl_id | (cmd_id << 24) | args[0] (args[0]
\* taken as 0 when there is no argument), and the words after it are
\* args[1..], in order: for overlay 0x1, command 0x2 and args [0x00FF2233]
\* the header word is 0x12FF2233.
C1_HeaderCarriesFirstArg ==
    (hist.last.op = "write") =>
        LET l == hist.last
            cmd == Logical(l.ovl, l.cmd, l.args)
        IN  \A i \in 1 .. Len(cmd) : StoredAt(l, l.first + i - 1) = cmd[i]

RECURSIVE ArgAll(_, _)
ArgAll(r, args) ==
    IF args = << >> THEN r
    ELSE ArgAll(Write_arg(r.s, r.w, Head(args)), Tail(args))
ViaCursor(s, ovl_id, cmd_id, size, args) ==
    LET r == ArgAll(RspQ_write_begin(s, ovl_id, cmd_id, size), args)
    IN  Write_end(r.s, r.w)

\* C3: for any args, write(ovl_id, cmd_id, args) and write_begin(ovl_id,
\* cmd_id, size) followed by one arg(v) per argument and end() leave the
\* same words in memory and the same cursor, size being the number of words
\* of the command (counted with or without a separate header word).
C3_WriteBeginEquivalent ==
    (~fatal /\ ~w.active) =>
        \A ovl_id \in Overlays, cmd_id \in UserCmds :
            LET args == CmdArgs[cmd_id]
                direct == RspQ_write(State, ovl_id, cmd_id, args)
            IN  \E size \in { CmdWords(cmd_id), 1 + Len(args) } :
                    LET cursor == ViaCursor(State, ovl_id, cmd_id, size, args)
                    IN  /\ direct.mem = cursor.mem
                        /\ direct.cur = cursor.cur

\* C4: every word that write, arg or end stores lies in the buffer that was
\* current when the call was made or in the one that is current after it.
C4_StoresInBuffer ==
    (hist.last.op \in { "write", "arg", "end" }) =>
        \A i \in 1 .. Len(CmdStores(hist.last)) :
            LET addr == CmdStores(hist.last)[i][1]
            IN  \/ hist.last.buf[1] <= addr /\ addr < hist.last.buf[2]
                \/ CurBufStart(State) <= addr /\ addr < CurBufEnd(State)

\* the commands the consumer has executed from one source, in order
Executed(src) ==
    LET sel == SelectSeq(rsp.trace, LAMBDA e : e.src = src)
    IN  [ i \in 1 .. Len(sel) |-> sel[i].words ]
IsPrefix(a, b) == Len(a) <= Len(b) /\ SubSeq(b, 1, Len(a)) = a
RECURSIVE Repeat(_, _)
Repeat(seq, k) == IF k = 0 THEN << >> ELSE seq \o Repeat(seq, k - 1)
\* everything written has been flushed and the consumer has gone idle on it
Drained ==
    /\ hist.last.op = "flush" /\ rspq_block = 0
    /\ sp_status.halted /\ ~fatal /\ ~w.active

\* C5: for every size of the live buffers, once the writes have been
\* flushed and the consumer has gone idle, the commands it has executed are
\* exactly the commands written: the same sequence whatever the size.
C5_SameForEverySize ==
    \A size \in BufSizes :
        (cfg.buf_size = size /\ Drained) => Executed("live") = hist.written

\* C6: with writes to the normal stream only, the consumer executes the
\* commands in the order they were written, each once: what it has
\* executed is at every moment a prefix of what was written.
C6_InOrderOnce ==
    (hist.hp_written = << >> /\ hist.recorded = << >> /\ hist.runs = 0) =>
        IsPrefix(Executed("live"), hist.written)

\* C7: a block recorded from the sequence S of writes and run k times on
\* an otherwise empty normal stream makes the consumer execute k copies of
\* S and nothing else.
C7_BlockReplay ==
    (Drained /\ hist.written = << >> /\ blocks[1].state = "sealed"
             /\ \A b \in 2 .. NumChunks : blocks[b].state = "none") =>
        /\ Executed("block") = Repeat(hist.recorded, hist.runs)
        /\ Executed("live") = << >>

\* C8: at most one block is being recorded at any time: block_begin while
\* a block is being recorded fails, starts no recording and leaves the one
\* in progress as it was.
C8_SingleRecording ==
    /\ builders <= 1
    /\ (hist.last.op = "block_begin" /\ hist.last.block # 0) =>
            /\ hist.last.failed /\ fatal
            /\ rspq_block = hist.last.block
            /\ hist.last.stores = << >>
            /\ rspq_cur_pointer = hist.last.first

\* block_begin was called while a block was being recorded
C8_Witness ==
    /\ hist.last.op = "block_begin" /\ hist.last.block # 0
    /\ builders = 1 /\ blocks[hist.last.block].state = "recording"

\* C9: commands written between block_begin and end() reach the consumer
\* only through block_run: while nothing was written to a live stream and
\* no block was run, the consumer has executed nothing; and end() puts the
\* writer back on the normal stream, at the cursor it had left.
C9_RecordingIsInert ==
    /\ (hist.written = << >> /\ hist.hp_written = << >> /\ hist.runs = 0 /\ ~w.active) =>
            rsp.trace = << >>
    /\ (hist.last.op = "block_end" /\ ~hist.last.failed) =>
            /\ rspq_block = 0 /\ rspq_ctx = "lowpri"
            /\ rspq_cur_pointer = lowpri.cur
            /\ rspq_cur_sentinel = lowpri.sentinel

\* C10: syncpoint and syncpoint_cb called while a block is being recorded
\* or inside the high-priority channel fail and hand out no token: every
\* token was made on the normal stream, outside a recording.
C10_SyncpointNormalStreamOnly ==
    /\ \A i \in 1 .. Len(tokens) : tokens[i].ctx = "lowpri" /\ tokens[i].block = 0
    /\ (/\ hist.last.op \in { "syncpoint", "syncpoint_cb" }
        /\ (hist.last.block # 0 \/ hist.last.ctx = "highpri")) =>
            /\ hist.last.failed /\ fatal
            /\ hist.last.token = 0
            /\ hist.last.stores = << >>
            /\ rspq_syncpoints_genid = Len(tokens)

\* syncpoint_cb was called inside the high-priority channel, after a
\* syncpoint made on the normal stream
C10_Witness ==
    /\ hist.last.op = "syncpoint_cb" /\ hist.last.ctx = "highpri"
    /\ Len(tokens) = 1

\* C11: for two syncpoints created in that order, whenever the later one
\* reports reached the earlier one reports reached too.
C11_SyncpointMonotonic ==
    \A i \in 1 .. Len(tokens) : \A j \in 1 .. Len(tokens) :
        (i < j /\ Syncpoint_check(tokens[j])) => Syncpoint_check(tokens[i])

\* two syncpoints were created and the consumer has reached the first only
C11_Witness ==
    /\ Len(tokens) = 2
    /\ Syncpoint_check(tokens[1]) /\ ~Syncpoint_check(tokens[2])

\* the consumer has executed each of the first n commands written to the
\* normal stream, as many times as it was written
Count(seq, x) == Cardinality({ i \in 1 .. Len(seq) : seq[i] = x })
Covered(n) ==
    \A k \in 1 .. n :
        Count(Executed("live"), hist.written[k]) >= Count(SubSeq(hist.written, 1, n), hist.written[k])

\* C12: a syncpoint does not report reached as long as the consumer has
\* not executed every command written to the normal stream before the
\* syncpoint was created.
C12_CheckImpliesExecuted ==
    \A i \in 1 .. Len(tokens) :
        Syncpoint_check(tokens[i]) => Covered(tokens[i].pos)

\* C13: the callback of call_deferred has not been invoked as long as the
\* consumer has not executed every command written before call_deferred.
C13_DeferredAfterExecuted ==
    \A i \in 1 .. Len(tokens) :
        (tokens[i].deferred /\ tokens[i].called) => Covered(tokens[i].pos)

\* C14: a block that has been freed has no call written to the normal
\* stream that the consumer has not executed yet.
C14_NoFreeWhilePending ==
    \A b \in 1 .. NumChunks :
        blocks[b].state = "freed" =>
            Count(rsp.calls, blocks[b].cmds) >= Count(hist.called, b)

C16_NoBlockInHighpri ==
    /\ (hist.last.op = "block_begin" /\ hist.last.ctx = "highpri") =>
            /\ hist.last.failed /\ fatal
            /\ hist.last.stores = << >>
            /\ rspq_block = 0 /\ rspq_ctx = "highpri"
            /\ rspq_cur_pointer = hist.last.first
    /\ rspq_ctx = "highpri" =>
            /\ rspq_block = 0
            /\ \A id \in DOMAIN blocks : blocks[id].state # "recording"

C16_Witness ==
    /\ hist.last.op = "block_begin" /\ hist.last.ctx = "highpri"
    /\ hist.ops >= 2

(***************************************************************************)
\* C17: after any sequence of change(mask_i, value_i) calls (the raw
\* change_other_modes_raw or the setters over mode_change_som) whose masks
\* are pairwise disjoint and each of whose values has no bit outside its
\* mask, the register is (initial & ~(mask_1|mask_2|...)) | value_1 |
\* value_2 | ...: every bit outside the union of the masks keeps its
\* initial value.
(***************************************************************************)
C17_DeltaPreserved ==
    (mh.track /\ mh.within) =>
        /\ rdp.som = (mh.init \ mh.masks) \cup mh.vals
        /\ rdp.hw = rdp.som

\* change(ZMODE_MASK, ZMODE_DECAL) and change(AA_MASK, AA_ENABLE) on a
\* register that had perspective correction on and those fields clear
C17_Witness ==
    /\ mh.track /\ mh.within /\ mh.ops = 2
    /\ mh.masks = SOM_ZMODE_MASK \cup SOM_AA_ENABLE
    /\ mh.vals = SOM_ZMODE_MASK \cup SOM_AA_ENABLE
    /\ mh.init = SOM_TEXTURE_PERSP
    /\ rdp.som = SomBits

\* C17 as stated, for values of any kind: the same composition whenever
\* the masks are pairwise disjoint
C17_DeltaForAnyValue ==
    mh.track => rdp.som = (mh.init \ mh.masks) \cup mh.vals

(***************************************************************************)
\* C18: when a ModeFrame is popped (ModeFrame::pop or its drop), whatever
\* changes, setters and inner frames or brackets came after its mode_push,
\* the render-mode register is bit for bit the one that was current just
\* before that push; the hardware register too, unless a freeze bracket
\* is still open around the frame.
(***************************************************************************)
C18_PushPopRoundTrip ==
    mh.last = "mode_pop" =>
        /\ ~rdp.fatal
        /\ rdp.som = mh.popped
        /\ ~Frozen => rdp.hw = mh.popped

\* a pop that had something to undo
C18_Witness ==
    /\ mh.last = "mode_pop"
    /\ mh.pre # mh.popped
    /\ ~Frozen /\ rdp.hw = mh.popped

(***************************************************************************)
\* C19: once no freeze bracket is open, the render-mode register is the
\* one the same calls give when made without any bracket, whatever the
\* masks and values of the changes batched, overlapping ones included;
\* inside a bracket the intended register already follows every call.
(***************************************************************************)
C19_FreezeEquivalent ==
    /\ rdp.som = mh.ref.som
    /\ ~Frozen => rdp.hw = mh.ref.hw /\ rdp.hw = rdp.som

\* begin(); change(m1, v1); change(m2, v2); end() with overlapping masks
\* and a result the hardware register did not have before
C19_Witness ==
    /\ mh.last = "mode_end"
    /\ mh.batch.n = 2 /\ mh.batch.overlap
    /\ rdp.hw # mh.init

(***************************************************************************)
\* C20: the mode stack has 4 slots, the current mode being one of them:
\* up to three nested mode_push save their modes, all of them kept as
\* saved, and the fourth nested push is a fatal error that leaves the
\* three saved modes as they were.
(***************************************************************************)
C20_StackBounded ==
    /\ Len(rdp.stack) + 1 <= RDPQ_MODE_STACK_SLOTS
    /\ Len(mh.saved) < RDPQ_MODE_STACK_SLOTS => ~rdp.fatal /\ rdp.stack = mh.saved
    /\ Len(mh.saved) >= RDPQ_MODE_STACK_SLOTS =>
            /\ rdp.fatal
            /\ rdp.stack = SubSeq(mh.saved, 1, RDPQ_MODE_STACK_SLOTS - 1)

\* the fourth nested push, over three different saved modes
C20_Witness ==
    /\ mh.last = "mode_push" /\ rdp.fatal
    /\ Len(mh.saved) = RDPQ_MODE_STACK_SLOTS
    /\ mh.saved[1] # mh.saved[2]

(***************************************************************************)
\* C21: fog enabled and a two-pass blender formula installed never hold
\* together: a mode_fog or mode_blender call that would make both true
\* fails an assertion and leaves the mode as it was.
(***************************************************************************)
C21_FogExcludesTwoPass ==
    ~(SOMX_FOG \subseteq rdp.som /\ (rdp.blend \cup rdp.fog) \cap SOMX_BLEND_2PASS # { })

\* C23: attachments form a stack: after any detach variant the program goes
\* on with the render targets that were current before the matching attach.
C23_DetachRestoresPrevious ==
    mh.last \in { "detach", "detach_show", "detach_wait", "detach_cb" }
        => ~rdp.fatal /\ rdp.targets = mh.expect



\* C24: attach sets the clip rectangle to the full bounds of the new colour
\* target, unless auto-scissor was disabled by configuration, and then the
\* clip rectangle is the one from before the attach.
C24_AttachSetsClip ==
    mh.last = "attach"
        => rdp.clip = IF rdp.autoscissor
                      THEN FullBounds(rdp.targets[Len(rdp.targets)].color)
                      ELSE mh.clip

C24_Witness ==
    /\ mh.last = "attach"
    /\ ~rdp.autoscissor
    /\ Len(rdp.targets) = 2
    /\ rdp.targets[1].color # rdp.targets[2].color
    /\ rdp.clip = FullBounds(rdp.targets[1].color)

\* C25: inside a tex_multi bracket, that is from its begin until auto mode
\* is ended, the tile-memory cursor starts at 0, or at the base auto mode had
\* already reached, each upload advances it by exactly the uploaded size, an
\* upload that would pass the capacity fails an assertion, and the cursor
\* never exceeds the capacity.
C25_TmemCursor ==
    /\ rdp.tmem <= TMEM_SIZE
    /\ mh.last = "tex_multi_begin"
        => rdp.tmem = IF mh.tmem = AutoTmemOff THEN 0 ELSE mh.tmem
    /\ mh.last = "tex_upload" /\ mh.tmem # AutoTmemOff
        => IF mh.tmem + mh.size > TMEM_SIZE THEN rdp.fatal /\ rdp.tmem = mh.tmem
           ELSE ~rdp.fatal /\ rdp.tmem = mh.tmem + mh.size

C25_Witness ==
    /\ mh.last = "tex_upload"
    /\ mh.tmem > 0
    /\ mh.tmem + mh.size > TMEM_SIZE
    /\ rdp.fatal

\* C22: when a Write, Highpri, BlockBuilder, Attachment or TexMulti leaves
\* scope without its finishing call, the program fails hard at that point
\* and takes no further step with the handle's protocol left open.
C22_UnfinishedDropIsFatal ==
    [][ /\ mh'.dropped # "none" => fatal' /\ rdp'.fatal
        /\ mh.dropped # "none" => UNCHANGED vars ]_vars

C22_Witness ==
    /\ mh.dropped = "Write"
    /\ w.active
    /\ hist.wb.args # << >>
    /\ fatal

\* C26: a write that needs a buffer switch when the consumer has not yet
\* released the other buffer of the stream halts the program, and it has
\* stored nothing into that other buffer, whose commands are still to be
\* executed.
C26_NoFreeBufferIsFatal ==
    LET l == hist.last
        other == IF CtxBuffer(cfg, l.ctx, 0) = l.buf[1] THEN CtxBuffer(cfg, l.ctx, 1)
                 ELSE CtxBuffer(cfg, l.ctx, 0)
    IN  (l.op = "write" /\ l.block = 0 /\ l.first > l.sentinel /\ ~l.free) =>
            /\ l.failed
            /\ \A i \in 1 .. Len(l.stores) :
                ~(other <= l.stores[i][1] /\ l.stores[i][1] < other + CtxBufSize(cfg, l.ctx))

\* C27: flush called while a block is being recorded is a no-op: the halted
\* consumer stays halted, so it executes nothing of what was recorded, no
\* word is stored, and the block under recording and the cursor into it are
\* what they were.
C27_FlushInBlockIsNoOp ==
    (hist.last.op = "flush" /\ hist.last.block # 0) =>
        /\ sp_status.halted
        /\ hist.last.stores = << >>
        /\ rspq_block = hist.last.block
        /\ rspq_cur_pointer = hist.last.first
        /\ rspq_cur_sentinel = hist.last.sentinel
        /\ ~fatal

C27_Witness ==
    /\ hist.last.op = "flush"
    /\ hist.last.block # 0
    /\ hist.recorded # << >>
    /\ sp_status.halted

\* C28: when wait() returns, the consumer has executed every command that
\* was written to the normal stream before the call, in the order written.
C28_WaitDrains ==
    hist.last.op = "wait_returned" => Executed("live") = hist.written

\* C29: with a consumer that runs whenever it can, a Syncpoint::wait on a
\* token of the normal stream eventually returns, and check() on the token
\* is true at the moment it does.
C29_SyncpointWaitReturns ==
    /\ [](hist.last.op = "syncpoint_wait" => <>(hist.last.op = "syncpoint_wait_returned"))
    /\ [][hist'.last.op = "syncpoint_wait_returned"
            => rspq_syncpoint_check(hist.waiting, rspq_syncpoints_done')]_vars

\* C30: when write_begin switches buffers, the command's header and
\* arguments go to the start of the new buffer and the write cursor after
\* the call is that position plus size.
C30_WriteBeginInNewBuffer ==
    (hist.last.op = "write_begin" /\ hist.last.switches = 1 /\ ~hist.last.failed) =>
        /\ w.first = CurBufStart(State)
        /\ w.pointer = w.first + 1
        /\ rspq_cur_pointer = CurBufStart(State) + hist.wb.size

\* C31: the header word of a command is the last word the producer stores
\* for it.  write stores its argument words at the words after the cursor
\* and then the header at the cursor; between write_begin and end no call
\* stores at the header's position, and end stores the header alone, after
\* every argument word the caller passed.
C31_HeaderStoredLast ==
    [][ /\ (hist'.last.op = "write" /\ hist'.ops # hist.ops) =>
                LET cs == CmdStores(hist'.last)
                    n == Len(hist'.last.args)
                IN  /\ Len(cs) = n + 1
                    /\ \A i \in 1 .. n : cs[i][1] = rspq_cur_pointer + i
                    /\ cs[n + 1][1] = rspq_cur_pointer
                    /\ cs[n + 1][2] \div 2 ^ 24 = (hist'.last.ovl \div 2 ^ 24) + hist'.last.cmd
        /\ w'.active =>
                /\ \A i \in 1 .. Len(hist'.last.stores) :
                        hist'.last.op \in { "write_begin", "arg" } =>
                            ~(hist'.last.stores[i][1] = w'.first /\ hist'.last.stores[i][3] = "cmd")
                /\ w.active => w'.first = w.first /\ mem'[w.first] = mem[w.first]
        /\ (w.active /\ ~w'.active /\ ~fatal') =>
                /\ hist'.last.op = "end"
                /\ CmdStores(hist'.last) = << << w.first, w.first_word, "cmd" >> >>
                /\ Len(hist.wb.args) = Len(CmdArgs[hist.wb.cmd])
                /\ w.pointer = w.first + Len(hist.wb.args)
      ]_vars

C31_Witness ==
    /\ hist.last.op = "end" /\ Len(hist.last.args) = 2
    /\ mem[hist.last.first - 1] = hist.last.args[2]
    /\ \E i \in 1 .. Len(hist.written) - 1 : Len(hist.written[i]) >= 2

\* C32: between write_begin(size) and end, every word an arg call stores
\* lies inside the size words write_begin reserved from the command's
\* first word: the first arg is merged into the header and stores nothing,
\* the k-th arg (k >= 2) is stored at the (k-1)-th word after the first,
\* and no arg stores at or beyond first + size.
C32_ArgsInsideReservation ==
    (w.active /\ hist.last.op = "arg") =>
        LET cs == CmdStores(hist.last)
            k == Len(hist.wb.args)
        IN  /\ k = 1 => cs = << >> /\ ~w.is_first
            /\ k >= 2 => Len(cs) = 1 /\ cs[1][1] = w.first + k - 1
            /\ \A i \in 1 .. Len(cs) :
                    w.first <= cs[i][1] /\ cs[i][1] < w.first + hist.wb.size

\* C33: a finishing call completes normally: after Write::end,
\* Highpri::end or BlockBuilder::end the queue has not failed, and after
\* Attachment::detach, detach_show, detach_wait or TexMulti::end the
\* must-finish failure has not been raised.
C33_FinishNeverFails ==
    /\ hist.last.op \in { "end", "highpri_end", "block_end" } => ~fatal
    /\ mh.last \in { "detach", "detach_show", "detach_wait", "tex_multi_end" } => ~rdp.fatal

\* the part of C33 that is about the three finishing calls of the queue
C33_QueueFinishNeverFails ==
    hist.last.op \in { "end", "highpri_end", "block_end" } => ~fatal

\* C34: every Attachment handle accounts for exactly one pop: as long as
\* the program has not failed, the handles through which a detach can still
\* be issued are as many as the attachments not yet popped, so that a
\* handle whose detach (of any variant) was called is open no more.
C34_OnePopPerHandle ==
    ~rdp.fatal =>
        Len(SelectSeq(mh.open, LAMBDA kind : kind = "attachment")) = Len(rdp.targets)

\* C35: a coupled setter hands over its side-register write and its
\* mode-bit change as adjacent commands in a fixed order, and nothing
\* else: mode_zoverride(enable = true) the primitive-depth write and then
\* the mode-bit change; mode_alphacompare(threshold > 0) the mode-bit change
\* and then the blend-colour write whose alpha is the threshold; a call that
\* disables the feature (or selects the noise compare) the mode-bit change
\* alone.
C35_CoupledWritesInOrder ==
    /\ (mh.last = "mode_zoverride" /\ ~rdp.fatal) =>
            IF mh.args[1]
            THEN /\ Len(rdp.cmds) = 2
                 /\ rdp.cmds[1][1] = RDPQ_CMD_SET_PRIM_DEPTH
                 /\ rdp.cmds[1][3] \div 2 ^ 16 = PrimZ(mh.args[2])
                 /\ rdp.cmds[2][1] = RDPQ_CMD_MODIFY_OTHER_MODES
                 /\ rdp.cmds[2][4] = SOM_ZSOURCE_PRIM
            ELSE /\ Len(rdp.cmds) = 1
                 /\ rdp.cmds[1][1] = RDPQ_CMD_MODIFY_OTHER_MODES
                 /\ rdp.cmds[1][4] = { }
    /\ (mh.last = "mode_alphacompare" /\ ~rdp.fatal) =>
            IF mh.args[1] > 0
            THEN /\ Len(rdp.cmds) = 2
                 /\ rdp.cmds[1][1] = RDPQ_CMD_MODIFY_OTHER_MODES
                 /\ rdp.cmds[1][4] = SOM_ALPHACOMPARE_THRESHOLD
                 /\ rdp.cmds[2][1] = RDPQ_CMD_SET_BLEND_COLOR
                 /\ rdp.cmds[2][3] % 2 ^ 8 = mh.args[1]
            ELSE /\ Len(rdp.cmds) = 1
                 /\ rdp.cmds[1][1] = RDPQ_CMD_MODIFY_OTHER_MODES

\* C35 for the thresholds that fit the eight bits of the alpha channel
C35_CoupledWritesInOrderU8 ==
    (mh.last = "mode_alphacompare" => mh.args[1] <= 255) => C35_CoupledWritesInOrder

C37_HighpriAtNextDispatch ==
    [][ (sp_status.highpri_requested /\ ~rsp.highpri /\ rsp' # rsp) =>
            /\ rsp'.highpri
            /\ rsp'.pc = rsp.highpri_pc
            /\ rsp'.lowpri_pc = rsp.pc
            /\ rsp'.trace = rsp.trace
            /\ ~rsp'.crashed
      ]_vars

\* the consumer ran a high-priority command while a command of the normal
\* stream, written before the segment was opened, was still to be run
C37_Witness ==
    /\ rsp.trace # << >>
    /\ rsp.trace[Len(rsp.trace)].src = "highpri"
    /\ \E i \in 1 .. Len(rsp.trace) : rsp.trace[i].src = "live"
    /\ rsp.lowpri_pc \in Addrs
    /\ TopByte(mem[rsp.lowpri_pc]) >= 16
    /\ Len(hist.written) >= 2

\* C38: check decides by the sign of the difference between the token and
\* the completion counter taken in the counters' width: the i-th syncpoint
\* created reports reached exactly when the consumer has passed at least i
\* syncpoints, also when the counters wrap around between the creation of
\* the token and the check (the two being less than half the range apart).
C38_CheckAcrossWrap ==
    \A i \in 1 .. Len(tokens) :
        /\ tokens[i].id = SyncWrap(cfg.start + i)
        /\ Syncpoint_check(tokens[i]) <=> rsp.syncs >= i
        /\ Syncpoint_check(tokens[i]) <=>
                SignedDiff(rspq_syncpoints_done, tokens[i].id) >= 0

\* after the completion counter wrapped around, a token created before the
\* wrap is reached although its id is the greater number
C38_Witness ==
    /\ Len(tokens) >= 2
    /\ tokens[1].id > rspq_syncpoints_done
    /\ Syncpoint_check(tokens[1]) /\ Syncpoint_check(tokens[2])

\* C39: at most one Display handle and at most one Audio handle are alive;
\* each flag is set exactly while its handle is alive and each subsystem
\* is open exactly while its handle is alive, so that an init with a
\* handle alive fails before it reaches the subsystem and the drop of the
\* handle is what makes the next init succeed.
C39_SingleHandle ==
    /\ dev.displays <= 1 /\ dev.audios <= 1
    /\ dev.DISPLAY_INIT <=> dev.displays = 1
    /\ dev.AUDIO_INIT <=> dev.audios = 1
    /\ dev.display_open <=> dev.displays = 1
    /\ dev.audio_open <=> dev.audios = 1
    /\ ~dev.reinit

\* the part of C39 that is about the display
C39_SingleDisplay ==
    /\ dev.displays <= 1
    /\ dev.DISPLAY_INIT <=> dev.displays = 1
    /\ dev.display_open <=> dev.displays = 1
    /\ dev.last = "display_init" /\ dev.panicked => dev.displays = 1

\* two Audio handles are alive
C39_TwoAudio == dev.audios <= 1

\* what load_block was called with
LoadBlockCalled == mh.last = "load_block" /\ Len(mh.args) = 5
LoadedTexels == mh.args[4]
LoadedPitch == mh.args[5]
\* the one command handed over is LOAD_BLOCK with ceil(2048 / words) as dxt
LoadBlockIssued ==
    /\ ~rdp.fatal
    /\ Len(rdp.cmds) = 1
    /\ rdp.cmds[1][1] = RDPQ_CMD_LOAD_BLOCK
    /\ LET words == LoadedPitch \div 8
           dxt == rdp.cmds[1][3] % 4096
       IN  /\ words > 0
           /\ dxt * words >= 2048
           /\ (dxt - 1) * words < 2048

\* C40: for every tmem_pitch that is a multiple of 8, 0 included, and
\* every num_texels up to 2048, load_block fails no arithmetic check and
\* hands over exactly one LOAD_BLOCK command whose dxt is
\* ceil(2048 / (tmem_pitch / 8)).
C40_LoadBlockDxt ==
    LoadBlockCalled /\ LoadedPitch % 8 = 0 /\ LoadedTexels <= 2048 => LoadBlockIssued

\* the same for a pitch of at least 8 and at least one texel
C40_LoadBlockDxtNonzero ==
    LoadBlockCalled /\ LoadedPitch % 8 = 0 /\ LoadedPitch >= 8
                    /\ LoadedTexels <= 2048 /\ LoadedTexels >= 1
        => LoadBlockIssued

\* a pitch of 0 alone, with at least one texel
C40_LoadBlockPitchZero ==
    LoadBlockCalled /\ LoadedPitch = 0 /\ LoadedTexels <= 2048 /\ LoadedTexels >= 1
        => ~rdp.fatal

====
